---- MODULE Spec2Model ----
(***************************************************************************)
(* A model of the obsidian-mtg decklist engine: the line grammar of        *)
(* parseLines, the batching of fetchCardDataFromScryfall and the           *)
(* sectioning / organizing / aggregating pipeline of renderDecklist        *)
(* (src/src/renderer.ts).                                                  *)
(*                                                                         *)
(* A JavaScript string is a sequence of one-character strings, so that the *)
(* regular expressions and the string methods of the source are computed   *)
(* character by character.  A literal of the source that is only ever      *)
(* concatenated (an error-message prefix) is kept as one element.          *)
(***************************************************************************)
EXTENDS Integers, Sequences, FiniteSets, TLC

VARIABLES
    pc,                \* position of the run: see the specifications below
    rawLines,          \* parseLines: the lines of the source text
    cardCounts,        \* the collection counts handed to the render
    parsedLines,       \* parseLines' result
    isGenericList,     \* renderDecklist's isGenericList argument
    settings,          \* settings.decklist: the flags the pipeline reads
    sections,          \* renderDecklist: the ordered section list
    linesBySection,    \* renderDecklist: the name -> lines map (insertion ordered)
    preReorg,          \* sections and map as the reorganization step found them
    cardDataByCardId,  \* renderDecklist: the metadata map after the fetch
    fetchFailed,       \* the getMultipleCardData calls that rejected in this render
    sectionTotalCounts,\* renderDecklist: per-section card totals
    missingCardCounts, \* renderDecklist: the buylist map
    sectionMissingCardCounts, \* renderDecklist: the missing map of each rendered section
    statistics,        \* calculateDeckStatistics: its result, <<>> before the call
    thrown,            \* the exception renderDecklist raised, "" when none
    fetchNames,        \* fetchCardDataFromScryfall: distinctCardNames
    fetchIdx,          \* fetchCardDataFromScryfall: forEach position
    batchState,        \* fetchCardDataFromScryfall: batches / arrays / currentBatch
    fetchCalls,        \* the getMultipleCardData calls issued, in order
    fetchResult,       \* fetchCardDataFromScryfall's resolved map
    thisCardCounts,    \* main.ts: this.cardCounts, <<>> while it is undefined
    blocks,            \* main.ts: the code-block processor invocations
    callbacks,         \* main.ts: the layout-ready and the modify callbacks
    guardSyncs,        \* main.ts: the syncCounts calls made by the processors' guard
    overlays,          \* mobile-utils.ts: the overlay elements created so far
    body,              \* mobile-utils.ts: the overlays attached to document.body, in order
    timers,            \* mobile-utils.ts: the pending setTimeout removals, in order
    frames,            \* mobile-utils.ts: the pending requestAnimationFrame callbacks
    lastEvent          \* mobile-utils.ts: the last user or browser event handled

parseVars  == <<rawLines, cardCounts, parsedLines>>
renderVars == <<isGenericList, settings, sections, linesBySection, preReorg,
                cardDataByCardId, fetchFailed, sectionTotalCounts,
                missingCardCounts, sectionMissingCardCounts, statistics, thrown>>
fetchVars  == <<fetchNames, fetchIdx, batchState, fetchCalls, fetchResult>>
pluginVars == <<thisCardCounts, blocks, callbacks, guardSyncs>>
overlayVars == <<overlays, body, timers, frames, lastEvent>>
otherVars == <<pluginVars, overlayVars>>
singleVars == <<pc, parseVars, renderVars, fetchVars>>
vars == <<pc, parseVars, renderVars, fetchVars, pluginVars, overlayVars>>

\* no plugin and no overlay: a render, or a function, on its own
IdlePlugin ==
    /\ thisCardCounts = <<>>
    /\ blocks = <<>>
    /\ callbacks = [layout |-> "done", modifying |-> 0, modified |-> 0]
    /\ guardSyncs = 0

IdleOverlay ==
    /\ overlays = <<>>
    /\ body = <<>>
    /\ timers = <<>>
    /\ frames = {}
    /\ lastEvent = ""

IdleOther == IdlePlugin /\ IdleOverlay

----------------------------------------------------------------------------
(* Characters and strings                                                  *)

UpperChars == <<"A","B","C","D","E","F","G","H","I","J","K","L","M",
                "N","O","P","Q","R","S","T","U","V","W","X","Y","Z">>
LowerChars == <<"a","b","c","d","e","f","g","h","i","j","k","l","m",
                "n","o","p","q","r","s","t","u","v","w","x","y","z">>
DigitChars == <<"0","1","2","3","4","5","6","7","8","9">>

Range(s) == {s[i] : i \in DOMAIN s}

\* \d of the regular expressions
IsDigit(c) == c \in Range(DigitChars)
\* \s of the regular expressions, and what String.trim removes
IsSpace(c) == c \in {" ", "\t"}
\* [A-Za-z0-9] of setCodesRE
IsAlnum(c) == c \in Range(UpperChars) \cup Range(LowerChars) \cup Range(DigitChars)
\* the class [\w| ,'] of lineWithSetCodes
IsNameChar(c) == IsAlnum(c) \/ c \in {"_", "|", " ", ",", "'"}

DigitVal(c) == (CHOOSE i \in DOMAIN DigitChars : DigitChars[i] = c) - 1

\* String.toLowerCase, one character
LowerChar(c) ==
    IF c \in Range(UpperChars)
    THEN LowerChars[CHOOSE i \in DOMAIN UpperChars : UpperChars[i] = c]
    ELSE c

ToLowerCase(s) == [i \in DOMAIN s |-> LowerChar(s[i])]

\* s.substring(from) with 1-based from
Tail_(s, from) == SubSeq(s, from, Len(s))

\* the positions at which t occurs in s
OccursAt(s, t, i) == i >= 1 /\ i + Len(t) - 1 <= Len(s) /\ SubSeq(s, i, i + Len(t) - 1) = t

\* String.includes
Includes(s, t) == \E i \in 1..(Len(s) + 1) : OccursAt(s, t, i)

\* String.indexOf, 1-based, 0 when absent
IndexOf(s, t) ==
    IF Includes(s, t)
    THEN CHOOSE i \in 1..(Len(s) + 1) :
            OccursAt(s, t, i) /\ \A j \in 1..(i - 1) : ~OccursAt(s, t, j)
    ELSE 0

\* String.startsWith
StartsWith(s, t) == OccursAt(s, t, 1)

\* String.replace(t, "") with a string pattern: the first occurrence only
RemoveFirst(s, t) ==
    LET i == IndexOf(s, t)
    IN  IF i = 0 THEN s ELSE SubSeq(s, 1, i - 1) \o Tail_(s, i + Len(t))

\* String.trim
Trim(s) ==
    LET keep == {i \in DOMAIN s : ~IsSpace(s[i])}
    IN  IF keep = {} THEN <<>>
        ELSE SubSeq(s, CHOOSE i \in keep : \A j \in keep : i <= j,
                       CHOOSE i \in keep : \A j \in keep : i >= j)

\* String.split(d) for a one-character delimiter d: the list of segments
RECURSIVE Split(_, _)
Split(s, d) ==
    LET i == IndexOf(s, <<d>>)
    IN  IF i = 0 THEN <<s>>
        ELSE <<SubSeq(s, 1, i - 1)>> \o Split(Tail_(s, i + 1), d)

\* parseInt of a string of decimal digits
RECURSIVE ParseInt(_)
ParseInt(s) ==
    IF s = <<>> THEN 0
    ELSE 10 * ParseInt(SubSeq(s, 1, Len(s) - 1)) + DigitVal(s[Len(s)])

----------------------------------------------------------------------------
(* Constants of the source                                                 *)

DEFAULT_DECK_SECTION_NAME == <<"D","e","c","k",":">>
DEFAULT_LIST_SECTION_NAME == <<"C","a","r","d","s",":">>
COMMENT_DELIMITER == "#"
CMDR_MARKER == <<"*","C","M","D","R","*">>
FACE_SEPARATOR == <<"/","/">>

\* JavaScript's null (globalCount: number | null): the empty option;
\* a number n is <<n>>
Null == <<>>
Some(n) == <<n>>

\* line.f || d : the field when the object has it (and it is truthy)
Field(line, f, d) == IF f \in DOMAIN line THEN line[f] ELSE d

\* collection.ts nameToId: lowercase, and the first face of a "//" name
nameToId(name) ==
    LET lower == ToLowerCase(name)
    IN  IF Includes(lower, FACE_SEPARATOR)
        THEN Trim(SubSeq(lower, 1, IndexOf(lower, FACE_SEPARATOR) - 1))
        ELSE lower

----------------------------------------------------------------------------
(* The regular expressions of the line grammar                             *)

\* the end of the maximal digit run that starts at i (s[i] is a digit)
DigitRunEnd(s, i) ==
    CHOOSE j \in i..Len(s) :
        /\ \A k \in i..j : IsDigit(s[k])
        /\ (j = Len(s) \/ ~IsDigit(s[j + 1]))

\* blankLineRE = /^\s+$/
blankLineRE(s) == Len(s) >= 1 /\ \A i \in DOMAIN s : IsSpace(s[i])

\* headingMatchRE = /^[^[0-9|#]/ : the class excludes "[", the digits, "|"
\* and the comment delimiter
headingMatchRE(s) ==
    /\ Len(s) >= 1
    /\ ~(s[1] = "[" \/ IsDigit(s[1]) \/ s[1] = "|" \/ s[1] = COMMENT_DELIMITER)

\* lineMatchRE = /(\d+)x?\s(.*)/ tried at start position i: the position of
\* the \s, or 0 when there is no match starting at i.  \d+ takes the whole
\* digit run (a shorter one is followed by a digit, which is neither x nor
\* \s), x? takes an x when there is one.
LineMatchSpaceAt(s, i) ==
    IF ~(i \in DOMAIN s /\ IsDigit(s[i])) THEN 0
    ELSE LET j == DigitRunEnd(s, i)
             k == IF j + 1 <= Len(s) /\ s[j + 1] = "x" THEN j + 2 ELSE j + 1
         IN  IF k <= Len(s) /\ IsSpace(s[k]) THEN k ELSE 0

\* String.match(lineMatchRE): the regular expression is not anchored, so
\* the match is the one at the leftmost start position that has one.
\* The result is <<>> for null, else <<[count, name]>> (groups 1 and 2).
lineMatchRE(s) ==
    LET starts == {i \in DOMAIN s : LineMatchSpaceAt(s, i) # 0}
    IN  IF starts = {} THEN <<>>
        ELSE LET i == CHOOSE a \in starts : \A b \in starts : a <= b
                 k == LineMatchSpaceAt(s, i)
             IN  <<[count |-> SubSeq(s, i, DigitRunEnd(s, i)),
                    name  |-> Tail_(s, k + 1)]>>

\* setCodesRE = /(\([A-Za-z0-9]{3}\)\s\d+)/ matching at position p
SetCodeAt(s, p) ==
    /\ p >= 1 /\ p + 6 <= Len(s)
    /\ s[p] = "("
    /\ \A k \in (p + 1)..(p + 3) : IsAlnum(s[k])
    /\ s[p + 4] = ")"
    /\ IsSpace(s[p + 5])
    /\ IsDigit(s[p + 6])

\* lineWithSetCodes = /(\d+)x?\s+([\w| ,']*)\s+(\([A-Za-z0-9]{3}\)\s\d+)/
\* has a match: digits, an optional x, then from the first \s (at w) up to
\* the set code (at p) a run \s+ [\w| ,']* \s+
lineWithSetCodes(s) ==
    \E i \in DOMAIN s, p \in DOMAIN s :
        /\ IsDigit(s[i])
        /\ SetCodeAt(s, p)
        /\ LET j == DigitRunEnd(s, i)
               w == IF j + 1 <= Len(s) /\ s[j + 1] = "x" /\ j + 2 <= Len(s)
                       /\ IsSpace(s[j + 2])
                    THEN j + 2 ELSE j + 1
           IN  /\ w <= p - 2
               /\ IsSpace(s[w])
               /\ IsSpace(s[p - 1])
               /\ \E a \in (w + 1)..(p - 1), b \in (w + 1)..(p - 1) :
                     /\ a <= b
                     /\ \A k \in (w + 1)..(a - 1) : IsSpace(s[k])
                     /\ \A k \in a..(b - 1) : IsNameChar(s[k])
                     /\ \A k \in b..(p - 1) : IsSpace(s[k])

\* String.replace(setCodesRE, ""): the leftmost set code is removed
ReplaceSetCodes(s) ==
    LET ps == {p \in DOMAIN s : SetCodeAt(s, p)}
    IN  IF ps = {} THEN s
        ELSE LET p == CHOOSE a \in ps : \A b \in ps : a <= b
             IN  SubSeq(s, 1, p - 1) \o Tail_(s, DigitRunEnd(s, p + 6) + 1)

----------------------------------------------------------------------------
(* parseLines                                                              *)

\* cardCounts[cardId] || 0
CountOf(counts, cardId) == IF cardId \in DOMAIN counts THEN counts[cardId] ELSE 0

\* the globalCount decided line by line: absent when the collection does
\* not have the card
LookupGlobalCount_PerLine(counts, cardId) ==
    IF cardId \notin DOMAIN counts THEN Null ELSE Some(counts[cardId])

\* the globalCount of a card or commander line
LookupGlobalCount(counts, cardId) ==
    LET shouldSkipGlobalCounts == (DOMAIN counts = {})
    IN  IF shouldSkipGlobalCounts THEN Null ELSE Some(CountOf(counts, cardId))

\* lineWithoutComments (lines 1208-1224): the line without its set code,
\* then, if the line has a "#", the first segment of the line itself
CardText(line) ==
    LET stripped == IF lineWithSetCodes(line)
                    THEN Trim(ReplaceSetCodes(line)) ELSE line
    IN  IF Includes(line, <<COMMENT_DELIMITER>>)
        THEN Split(line, COMMENT_DELIMITER)[1]
        ELSE stripped

\* the card / error rule: the tail of the callback of parseLines
ParseCardLine(line, counts) ==
    LET comments == IF Includes(line, <<COMMENT_DELIMITER>>)
                    THEN Tail(Split(line, COMMENT_DELIMITER)) ELSE <<>>
        lineParts == lineMatchRE(CardText(line))
    IN  IF lineParts = <<>>
        THEN [lineType |-> "error",
              errors   |-> << <<"invalid line: ">> \o line >>]
        ELSE LET cardName == lineParts[1].name
             IN  [lineType    |-> "card",
                  cardCount   |-> ParseInt(lineParts[1].count),
                  globalCount |-> LookupGlobalCount(counts, nameToId(cardName)),
                  cardName    |-> cardName,
                  comments    |-> comments,
                  errors      |-> IF Len(cardName) = 0
                                  THEN << <<"Unable to parse card name from: ">> \o line >>
                                  ELSE <<>>]

\* the commander rule: the marker is removed and the rest matched
CommanderParts(line) == lineMatchRE(Trim(RemoveFirst(line, CMDR_MARKER)))

\* the callback of rawLines.map in parseLines: one line
ParseLine(line, counts) ==
    IF Len(line) = 0 \/ blankLineRE(line) THEN [lineType |-> "blank"]
    ELSE IF headingMatchRE(line) THEN [lineType |-> "section", text |-> line]
    ELSE IF StartsWith(line, <<COMMENT_DELIMITER, " ">>)
         THEN [lineType |-> "comment", comments |-> <<line>>]
    ELSE IF Includes(line, CMDR_MARKER) /\ CommanderParts(line) # <<>>
         THEN LET cardName == CommanderParts(line)[1].name
              IN  [lineType    |-> "commander",
                   cardCount   |-> 1,
                   globalCount |-> LookupGlobalCount(counts, nameToId(cardName)),
                   cardName    |-> cardName,
                   comments    |-> <<>>,
                   errors      |-> <<>>]
    ELSE ParseCardLine(line, counts)

parseLines(lines, counts) == [i \in DOMAIN lines |-> ParseLine(lines[i], counts)]

----------------------------------------------------------------------------
(* JavaScript objects used as maps: the keys in insertion order            *)

OM_Empty == [keys |-> <<>>, val |-> <<>>]
OM_Has(m, k) == \E i \in DOMAIN m.keys : m.keys[i] = k
OM_Index(m, k) == CHOOSE i \in DOMAIN m.keys : m.keys[i] = k
OM_Get(m, k) == m.val[OM_Index(m, k)]
\* m[k] = v : a new key is added last, an existing key keeps its place
OM_Set(m, k, v) ==
    IF OM_Has(m, k)
    THEN [m EXCEPT !.val[OM_Index(m, k)] = v]
    ELSE [keys |-> Append(m.keys, k), val |-> Append(m.val, v)]

Contains(seq, x) == \E i \in DOMAIN seq : seq[i] = x

\* Array.filter
Filter(seq, Keep(_)) == SelectSeq(seq, Keep)

IsCard(line) == line.lineType = "card"
IsComment(line) == line.lineType = "comment"
IsCommander(line) == line.lineType = "commander"
IsNotCard(line) == line.lineType # "card"
IsNotCommander(line) == line.lineType # "commander"

----------------------------------------------------------------------------
(* renderDecklist: the sectioner                                           *)

DefaultSectionName(generic) ==
    IF generic THEN DEFAULT_LIST_SECTION_NAME ELSE DEFAULT_DECK_SECTION_NAME

\* the body of parsedLines.forEach((line, idx) => ...), idx 1-based here
\* the callback with a recurring heading that empties the bucket of its name
SectionStep_FreshBucket(st, line, idx, defaultSectionName) ==
    LET st1 == IF idx = 1 /\ line.lineType # "section"
               THEN [st EXCEPT !.sections = Append(@, st.currentSection)]
               ELSE st
    IN  IF line.lineType = "section"
        THEN LET name == IF Len(line.text) > 0 THEN line.text ELSE defaultSectionName
             IN  [st1 EXCEPT !.currentSection = name,
                             !.sections = Append(@, name),
                             !.linesBySection =
                                 IF OM_Has(@, name) THEN OM_Set(@, name, <<>>) ELSE @]
        ELSE LET cur == st1.currentSection
                 old == IF OM_Has(st1.linesBySection, cur)
                        THEN OM_Get(st1.linesBySection, cur) ELSE <<>>
             IN  [st1 EXCEPT !.linesBySection = OM_Set(@, cur, Append(old, line))]

SectionStep(st, line, idx, defaultSectionName) ==
    LET st1 == IF idx = 1 /\ line.lineType # "section"
               THEN [st EXCEPT !.sections = Append(@, st.currentSection)]
               ELSE st
    IN  IF line.lineType = "section"
        THEN LET name == IF Len(line.text) > 0 THEN line.text ELSE defaultSectionName
             IN  [st1 EXCEPT !.currentSection = name,
                             !.sections = Append(@, name)]
        ELSE LET cur == st1.currentSection
                 old == IF OM_Has(st1.linesBySection, cur)
                        THEN OM_Get(st1.linesBySection, cur) ELSE <<>>
             IN  [st1 EXCEPT !.linesBySection = OM_Set(@, cur, Append(old, line))]

RECURSIVE SectionLoop(_, _, _, _)
SectionLoop(st, lines, idx, defaultSectionName) ==
    IF idx > Len(lines) THEN st
    ELSE SectionLoop(SectionStep(st, lines[idx], idx, defaultSectionName),
                     lines, idx + 1, defaultSectionName)

Sectioner(lines, generic) ==
    SectionLoop([currentSection |-> DefaultSectionName(generic),
                 sections |-> <<>>,
                 linesBySection |-> OM_Empty],
                lines, 1, DefaultSectionName(generic))

\* buildDistinctCardNamesList: the non-empty card names, first occurrences
RECURSIVE Distinct(_)
Distinct(seq) ==
    IF seq = <<>> THEN <<>>
    ELSE LET rest == Distinct(SubSeq(seq, 1, Len(seq) - 1))
             x == seq[Len(seq)]
         IN  IF Contains(rest, x) THEN rest ELSE Append(rest, x)

IsNonEmpty(s) == s # <<>>

buildDistinctCardNamesList(lines) ==
    Distinct(Filter([i \in DOMAIN lines |-> Field(lines[i], "cardName", <<>>)],
                    IsNonEmpty))

----------------------------------------------------------------------------
(* fetchCardDataFromScryfall                                               *)

\* scryfall.ts MAX_SCRYFALL_BATCH_SIZE
MAX_SCRYFALL_BATCH_SIZE == 75

\* The arrays of the batching loop.  batches holds references: an array is
\* an index into arrays, so that a push to currentBatch is seen through
\* every reference to it that batches holds.
BatchInit == [arrays |-> << <<>> >>, batches |-> <<1>>, currentBatch |-> 1]

\* the body of distinctCardNames.forEach
BatchStep(st, cardName) ==
    LET st1 == IF Len(st.arrays[st.currentBatch]) = MAX_SCRYFALL_BATCH_SIZE
               THEN [arrays |-> Append(st.arrays, <<>>),
                     batches |-> Append(st.batches, st.currentBatch),
                     currentBatch |-> Len(st.arrays) + 1]
               ELSE st
    IN  [st1 EXCEPT !.arrays[st1.currentBatch] = Append(@, nameToId(cardName))]

\* "Add remaining cards": batches.push(currentBatch) after the loop
BatchEnd(st) == [st EXCEPT !.batches = Append(@, st.currentBatch)]

RECURSIVE BatchLoop(_, _, _)
BatchLoop(st, names, idx) ==
    IF idx > Len(names) THEN BatchEnd(st)
    ELSE BatchLoop(BatchStep(st, names[idx]), names, idx + 1)

\* the argument of each getMultipleCardData call, in call order
BatchCalls(st) == [k \in DOMAIN st.batches |-> st.arrays[st.batches[k]]]

\* getMultipleCardData (the remote service): the cards of db, a map from
\* identity to CardData, that the batch asks for, in the batch's order
ScryfallData(db, batch) ==
    LET Known(id) == id \in DOMAIN db
        ids == Filter(batch, Known)
    IN  [i \in DOMAIN ids |-> db[ids[i]]]

\* cardDataInBatches, flattened: every returned card in merge order
RECURSIVE Flatten(_)
Flatten(responses) ==
    IF responses = <<>> THEN <<>> ELSE Head(responses) \o Flatten(Tail(responses))

\* the merge loops: cardDataByCardId[nameToId(card.name)] = card for every
\* returned card that has a name, in order: the last card of an identity
\* is the one the map keeps
MergeCards(cards) ==
    LET named == {i \in DOMAIN cards : cards[i].name # <<>>}
        Last(id) == CHOOSE i \in named :
                       /\ nameToId(cards[i].name) = id
                       /\ \A j \in named : nameToId(cards[j].name) = id => j <= i
    IN  [id \in {nameToId(cards[i].name) : i \in named} |-> cards[Last(id)]]

MergeBatches(responses) == MergeCards(Flatten(responses))

----------------------------------------------------------------------------
(* Card metadata: type groups, color groups, cost order                    *)

\* cardDataById[cardId]: <<>> for undefined, else <<CardData>>
CardDataOf(data, cardId) == IF cardId \in DOMAIN data THEN <<data[cardId]>> ELSE <<>>

\* CARD_TYPE_GROUPS, in the order of its keys
CARD_TYPE_GROUPS == <<
    [group |-> <<"C","r","e","a","t","u","r","e">>,
     types |-> <<<<"C","r","e","a","t","u","r","e">>>>],
    [group |-> <<"I","n","s","t","a","n","t">>,
     types |-> <<<<"I","n","s","t","a","n","t">>>>],
    [group |-> <<"S","o","r","c","e","r","y">>,
     types |-> <<<<"S","o","r","c","e","r","y">>>>],
    [group |-> <<"A","r","t","i","f","a","c","t">>,
     types |-> <<<<"A","r","t","i","f","a","c","t">>>>],
    [group |-> <<"E","n","c","h","a","n","t","m","e","n","t">>,
     types |-> <<<<"E","n","c","h","a","n","t","m","e","n","t">>>>],
    [group |-> <<"P","l","a","n","e","s","w","a","l","k","e","r">>,
     types |-> <<<<"P","l","a","n","e","s","w","a","l","k","e","r">>>>],
    [group |-> <<"L","a","n","d">>,
     types |-> <<<<"L","a","n","d">>>>],
    [group |-> <<"B","a","t","t","l","e">>,
     types |-> <<<<"B","a","t","t","l","e">>>>],
    [group |-> <<"O","t","h","e","r">>,
     types |-> <<>>] >>

S_Other == <<"O","t","h","e","r">>
S_Commander == <<"C","o","m","m","a","n","d","e","r">>
S_Comments == <<"C","o","m","m","e","n","t","s">>
S_Lands == <<"L","a","n","d","s">>
S_Colorless == <<"C","o","l","o","r","l","e","s","s">>
S_Multicolor == <<"M","u","l","t","i","c","o","l","o","r">>
S_FourColor == <<"F","o","u","r","-","C","o","l","o","r">>
S_FiveColor == <<"F","i","v","e","-","C","o","l","o","r">>
S_land == <<"l","a","n","d">>
S_Dash == <<" ","-"," ">>

\* getCardTypeGroup: the first group one of whose types the lowercased type
\* line includes; the argument is CardDataOf's option
getCardTypeGroup(cardData) ==
    IF cardData = <<>> \/ cardData[1].type_line = <<>> THEN S_Other
    ELSE LET typeLine == ToLowerCase(cardData[1].type_line)
             Matches(g) == \E t \in DOMAIN CARD_TYPE_GROUPS[g].types :
                              Includes(typeLine, ToLowerCase(CARD_TYPE_GROUPS[g].types[t]))
             hits == {g \in DOMAIN CARD_TYPE_GROUPS : Matches(g)}
         IN  IF hits = {} THEN S_Other
             ELSE CARD_TYPE_GROUPS[CHOOSE g \in hits : \A h \in hits : g <= h].group

\* parseManaCost: cardData?.cmc || 0
parseManaCost(cardData) == IF cardData = <<>> THEN 0 ELSE cardData[1].cmc

\* Array.sort with a comparator that is a total preorder: the stable order
StableSort(seq, Cmp(_, _)) ==
    LET Before(j, i) == Cmp(seq[j], seq[i]) < 0 \/ (Cmp(seq[j], seq[i]) = 0 /\ j < i)
        Rank(i) == Cardinality({j \in DOMAIN seq : Before(j, i)}) + 1
    IN  [p \in DOMAIN seq |-> seq[CHOOSE i \in DOMAIN seq : Rank(i) = p]]

\* The collation of String.localeCompare: the characters in their primary
\* order (spaces and punctuation, digits, letters whatever their case)
CollationChars == <<" ", "_", "-", ",", ":", "'", "(", ")", "[", "|", "/", "*", "#">>
                  \o DigitChars \o LowerChars

PrimaryKey(c) ==
    LET l == LowerChar(c)
    IN  IF l \in Range(CollationChars)
        THEN CHOOSE i \in DOMAIN CollationChars : CollationChars[i] = l
        ELSE 0

\* String.localeCompare: -1, 0 or 1.  The primary keys decide; strings equal
\* but for case are ordered lowercase first at their first difference.
localeCompare(a, b) ==
    LET n == IF Len(a) < Len(b) THEN Len(a) ELSE Len(b)
        pdiff == {i \in 1..n : PrimaryKey(a[i]) # PrimaryKey(b[i])}
        cdiff == {i \in 1..n : a[i] # b[i]}
        First(S) == CHOOSE i \in S : \A j \in S : i <= j
    IN  IF pdiff # {}
        THEN (IF PrimaryKey(a[First(pdiff)]) < PrimaryKey(b[First(pdiff)]) THEN -1 ELSE 1)
        ELSE IF Len(a) # Len(b) THEN (IF Len(a) < Len(b) THEN -1 ELSE 1)
        ELSE IF cdiff # {}
        THEN (IF a[First(cdiff)] \in Range(LowerChars) THEN -1 ELSE 1)
        ELSE 0

IsCardOrCommander(line) == line.lineType = "card" \/ line.lineType = "commander"

\* the comparator without the alphabetical order of cards of equal cost
ManaCostCompare_CostOnly(a, b, data) ==
    IF ~IsCardOrCommander(a) \/ ~IsCardOrCommander(b) THEN 0
    ELSE parseManaCost(CardDataOf(data, nameToId(a.cardName)))
            - parseManaCost(CardDataOf(data, nameToId(b.cardName)))

\* the comparator of sortCardsByManaCost
ManaCostCompare(a, b, data) ==
    IF ~IsCardOrCommander(a) \/ ~IsCardOrCommander(b) THEN 0
    ELSE LET aCmc == parseManaCost(CardDataOf(data, nameToId(a.cardName)))
             bCmc == parseManaCost(CardDataOf(data, nameToId(b.cardName)))
         IN  IF aCmc # bCmc THEN aCmc - bCmc
             ELSE localeCompare(a.cardName, b.cardName)

sortCardsByManaCost(cards, data) ==
    LET Cmp(a, b) == ManaCostCompare(a, b, data)
    IN  StableSort(cards, Cmp)

\* the comparator of the color path: by display name
NameCompare(a, b) ==
    localeCompare(Field(a, "cardName", <<>>), Field(b, "cardName", <<>>))

\* the groups object of groupCardsByType / groupCardsByColor: cards[i] is
\* pushed to the group groupOf[i]; a group is created when first met
GroupsOf(cards, groupOf, keys) ==
    [keys |-> keys,
     val  |-> [k \in DOMAIN keys |->
                 LET idx == {i \in DOMAIN cards : groupOf[i] = keys[k]}
                     Nth(n) == CHOOSE i \in idx : Cardinality({j \in idx : j < i}) = n - 1
                 IN  [n \in 1..Cardinality(idx) |-> cards[Nth(n)]]]]

GroupBy(cards, groupOf) == GroupsOf(cards, groupOf, Distinct(groupOf))

TypeGroupsOf(kept, data) ==
    GroupBy(kept, [i \in DOMAIN kept |->
                     getCardTypeGroup(CardDataOf(data, nameToId(kept[i].cardName)))])

\* groupCardsByType: group name -> the cards of the group, in their order
groupCardsByType(cards, data) == TypeGroupsOf(Filter(cards, IsCardOrCommander), data)

\* the comparator of a sort that leaves the colors as they are
ColorCompare_Unsorted(a, b) == 0

\* color_identity.sort(): the default order, by code unit
ColorCompare(a, b) ==
    LET Code(c) == CHOOSE i \in DOMAIN UpperChars : UpperChars[i] = c
    IN  Code(a) - Code(b)

ONE_COLOR == <<<<<<"W">>, <<"W","h","i","t","e">>>>, <<<<"U">>, <<"B","l","u","e">>>>, <<<<"B">>, <<"B","l","a","c","k">>>>, <<<<"R">>, <<"R","e","d">>>>, <<<<"G">>, <<"G","r","e","e","n">>>>>>
TWO_COLORS == <<<<<<"U","W">>, <<"A","z","o","r","i","u","s"," ","(","W","/","U",")">>>>,
    <<<<"B","W">>, <<"O","r","z","h","o","v"," ","(","W","/","B",")">>>>,
    <<<<"G","W">>, <<"S","e","l","e","s","n","y","a"," ","(","W","/","G",")">>>>,
    <<<<"R","W">>, <<"B","o","r","o","s"," ","(","W","/","R",")">>>>,
    <<<<"B","U">>, <<"D","i","m","i","r"," ","(","U","/","B",")">>>>,
    <<<<"G","U">>, <<"S","i","m","i","c"," ","(","U","/","G",")">>>>,
    <<<<"R","U">>, <<"I","z","z","e","t"," ","(","U","/","R",")">>>>,
    <<<<"B","G">>, <<"G","o","l","g","a","r","i"," ","(","B","/","G",")">>>>,
    <<<<"B","R">>, <<"R","a","k","d","o","s"," ","(","B","/","R",")">>>>,
    <<<<"G","R">>, <<"G","r","u","u","l"," ","(","R","/","G",")">>>>>>
THREE_COLORS == <<<<<<"G","U","W">>, <<"B","a","n","t"," ","(","G","/","W","/","U",")">>>>,
    <<<<"B","U","W">>, <<"E","s","p","e","r"," ","(","W","/","U","/","B",")">>>>,
    <<<<"B","G","R">>, <<"J","u","n","d"," ","(","B","/","R","/","G",")">>>>,
    <<<<"G","R","W">>, <<"N","a","y","a"," ","(","R","/","G","/","W",")">>>>,
    <<<<"B","R","U">>, <<"G","r","i","x","i","s"," ","(","U","/","B","/","R",")">>>>,
    <<<<"B","G","W">>, <<"A","b","z","a","n"," ","(","W","/","B","/","G",")">>>>,
    <<<<"G","R","U">>, <<"T","e","m","u","r"," ","(","G","/","U","/","R",")">>>>,
    <<<<"B","R","W">>, <<"M","a","r","d","u"," ","(","R","/","W","/","B",")">>>>,
    <<<<"B","G","U">>, <<"S","u","l","t","a","i"," ","(","B","/","G","/","U",")">>>>,
    <<<<"R","U","W">>, <<"J","e","s","k","a","i"," ","(","U","/","R","/","W",")">>>>>>

\* a switch over string cases: the value of the case equal to key, else dflt
Switch(cases, key, dflt) ==
    IF \E i \in DOMAIN cases : cases[i][1] = key
    THEN cases[CHOOSE i \in DOMAIN cases : cases[i][1] = key][2]
    ELSE dflt

\* getCardColorGroup; the argument is CardDataOf's option
getCardColorGroup(cardData) ==
    IF cardData # <<>> /\ Includes(ToLowerCase(cardData[1].type_line), S_land)
    THEN S_Lands
    ELSE IF cardData = <<>> \/ Len(Field(cardData[1], "color_identity", <<>>)) = 0
    THEN S_Colorless
    ELSE LET colors == StableSort(cardData[1].color_identity, ColorCompare)
         IN  CASE Len(colors) = 1 -> Switch(ONE_COLOR, colors, S_Colorless)
               [] Len(colors) = 2 -> Switch(TWO_COLORS, colors, S_Multicolor)
               [] Len(colors) = 3 -> Switch(THREE_COLORS, colors, S_Multicolor)
               [] Len(colors) = 4 -> S_FourColor
               [] Len(colors) = 5 -> S_FiveColor
               [] OTHER -> S_Multicolor

ColorGroupsOf(kept, data) ==
    GroupBy(kept, [i \in DOMAIN kept |->
                     getCardColorGroup(CardDataOf(data, nameToId(kept[i].cardName)))])

\* groupCardsByColor
groupCardsByColor(cards, data) == ColorGroupsOf(Filter(cards, IsCardOrCommander), data)

\* colorOrder of the color path
colorOrder == <<
    <<"W","h","i","t","e">>,
    <<"B","l","u","e">>,
    <<"B","l","a","c","k">>,
    <<"R","e","d">>,
    <<"G","r","e","e","n">>,
    <<"A","z","o","r","i","u","s"," ","(","W","/","U",")">>,
    <<"O","r","z","h","o","v"," ","(","W","/","B",")">>,
    <<"S","e","l","e","s","n","y","a"," ","(","W","/","G",")">>,
    <<"B","o","r","o","s"," ","(","W","/","R",")">>,
    <<"D","i","m","i","r"," ","(","U","/","B",")">>,
    <<"S","i","m","i","c"," ","(","U","/","G",")">>,
    <<"I","z","z","e","t"," ","(","U","/","R",")">>,
    <<"G","o","l","g","a","r","i"," ","(","B","/","G",")">>,
    <<"R","a","k","d","o","s"," ","(","B","/","R",")">>,
    <<"G","r","u","u","l"," ","(","R","/","G",")">>,
    <<"B","a","n","t"," ","(","G","/","W","/","U",")">>,
    <<"E","s","p","e","r"," ","(","W","/","U","/","B",")">>,
    <<"J","u","n","d"," ","(","B","/","R","/","G",")">>,
    <<"N","a","y","a"," ","(","R","/","G","/","W",")">>,
    <<"G","r","i","x","i","s"," ","(","U","/","B","/","R",")">>,
    <<"A","b","z","a","n"," ","(","W","/","B","/","G",")">>,
    <<"T","e","m","u","r"," ","(","G","/","U","/","R",")">>,
    <<"M","a","r","d","u"," ","(","R","/","W","/","B",")">>,
    <<"S","u","l","t","a","i"," ","(","B","/","G","/","U",")">>,
    <<"J","e","s","k","a","i"," ","(","U","/","R","/","W",")">>,
    <<"F","o","u","r","-","C","o","l","o","r">>,
    <<"F","i","v","e","-","C","o","l","o","r">>,
    <<"M","u","l","t","i","c","o","l","o","r">>,
    <<"C","o","l","o","r","l","e","s","s">>,
    <<"L","a","n","d","s">>,
    <<"C","o","m","m","e","n","t","s">> >>

\* Object.keys(CARD_TYPE_GROUPS)
typeOrder == [g \in DOMAIN CARD_TYPE_GROUPS |-> CARD_TYPE_GROUPS[g].group]

----------------------------------------------------------------------------
(* renderDecklist: the organizer                                           *)

\* A stage of renderDecklist either raises (linesBySection[name] is
\* undefined for a listed name, and .filter / .forEach on it is a TypeError)
\* or yields the new section list and map.
Raised == [ok |-> FALSE]
Organized(secs, lbs) == [ok |-> TRUE, sections |-> secs, linesBySection |-> lbs]

AllBucketsDefined(secs, lbs) == \A i \in DOMAIN secs : OM_Has(lbs, secs[i])

\* lines 1373-1383: the commanders of every listed section, in list order
RECURSIVE CollectCommanders(_, _, _)
CollectCommanders(secs, lbs, i) ==
    IF i > Len(secs) THEN <<>>
    ELSE Filter(OM_Get(lbs, secs[i]), IsCommander) \o CollectCommanders(secs, lbs, i + 1)

RECURSIVE StripCommanders(_, _, _, _)
StripCommanders(new, secs, lbs, i) ==
    IF i > Len(secs) THEN new
    ELSE StripCommanders(OM_Set(new, secs[i], Filter(OM_Get(lbs, secs[i]), IsNotCommander)),
                         secs, lbs, i + 1)

\* "Extract commanders and create a separate section" (decklists)
\* "Add commander section if there are commanders"
WithCommanderSection(secs, new, commanderLines) ==
    IF Len(commanderLines) > 0
    THEN Organized(<<S_Commander>> \o secs, OM_Set(new, S_Commander, commanderLines))
    ELSE Organized(secs, new)

ExtractCommanders(secs, lbs) ==
    IF ~AllBucketsDefined(secs, lbs) THEN Raised
    ELSE WithCommanderSection(secs, StripCommanders(OM_Empty, secs, lbs, 1),
                              CollectCommanders(secs, lbs, 1))

\* the name of a regrouped section
\* a composed name that drops the name of the original section
NewSectionName_OriginalDropped(sectionName, defaultSectionName, groupName) ==
    IF sectionName = defaultSectionName THEN groupName
    ELSE <<"_">> \o S_Dash \o groupName

NewSectionName(sectionName, defaultSectionName, groupName) ==
    IF sectionName = defaultSectionName THEN groupName
    ELSE sectionName \o S_Dash \o groupName

\* Object.keys(cardGroups).forEach: one new section per group
RECURSIVE AddGroups(_, _, _, _, _)
AddGroups(new, sectionName, defaultSectionName, cardGroups, k) ==
    IF k > Len(cardGroups.keys) THEN new
    ELSE AddGroups(OM_Set(new,
                          NewSectionName(sectionName, defaultSectionName, cardGroups.keys[k]),
                          cardGroups.val[k]),
                   sectionName, defaultSectionName, cardGroups, k + 1)

\* "Add comments to a separate section if they exist"
AddComments(new, sectionName, defaultSectionName, sectionComments) ==
    IF Len(sectionComments) > 0
    THEN OM_Set(new, NewSectionName(sectionName, defaultSectionName, S_Comments),
                sectionComments)
    ELSE new

\* "Sort each group alphabetically"
SortGroupsByName(cardGroups) ==
    [cardGroups EXCEPT !.val = [k \in DOMAIN cardGroups.val |->
                                  StableSort(cardGroups.val[k], NameCompare)]]

\* "Sort each group by mana cost if enabled or in mobile mode"
SortGroupsByCost(cardGroups, data, sortGroups) ==
    IF sortGroups
    THEN [cardGroups EXCEPT !.val = [k \in DOMAIN cardGroups.val |->
                                       sortCardsByManaCost(cardGroups.val[k], data)]]
    ELSE cardGroups

\* one section regrouped: its cards by group, then its comments
Regroup(new, sectionName, defaultSectionName, sectionCards, sectionComments, groups) ==
    AddComments(IF Len(sectionCards) > 0
                THEN AddGroups(new, sectionName, defaultSectionName, groups, 1)
                ELSE new,
                sectionName, defaultSectionName, sectionComments)

ColorRegroup(new, sectionName, defaultSectionName, sectionCards, sectionComments, data) ==
    Regroup(new, sectionName, defaultSectionName, sectionCards, sectionComments,
            SortGroupsByName(groupCardsByColor(sectionCards, data)))

\* the color path, the body of sections.forEach for one section
ColorGroupSection(new, sectionName, lbs, data, defaultSectionName) ==
    ColorRegroup(new, sectionName, defaultSectionName,
                 Filter(OM_Get(lbs, sectionName), IsCard),
                 Filter(OM_Get(lbs, sectionName), IsComment), data)

RECURSIVE ColorGroupLoop(_, _, _, _, _, _)
ColorGroupLoop(new, secs, lbs, data, defaultSectionName, i) ==
    IF i > Len(secs) THEN new
    ELSE ColorGroupLoop(ColorGroupSection(new, secs[i], lbs, data, defaultSectionName),
                        secs, lbs, data, defaultSectionName, i + 1)

TypeRegroup(new, sectionName, defaultSectionName, sectionCards, sectionComments, data, sortGroups) ==
    Regroup(new, sectionName, defaultSectionName, sectionCards, sectionComments,
            SortGroupsByCost(groupCardsByType(sectionCards, data), data, sortGroups))

\* the type path, the body of sections.forEach for one section
TypeGroupSection(new, sectionName, lbs, data, defaultSectionName, sortGroups) ==
    IF sectionName = S_Commander
    THEN OM_Set(new, sectionName, OM_Get(lbs, sectionName))
    ELSE TypeRegroup(new, sectionName, defaultSectionName,
                     Filter(OM_Get(lbs, sectionName), IsCard),
                     Filter(OM_Get(lbs, sectionName), IsComment), data, sortGroups)

RECURSIVE TypeGroupLoop(_, _, _, _, _, _, _)
TypeGroupLoop(new, secs, lbs, data, defaultSectionName, sortGroups, i) ==
    IF i > Len(secs) THEN new
    ELSE TypeGroupLoop(TypeGroupSection(new, secs[i], lbs, data, defaultSectionName, sortGroups),
                       secs, lbs, data, defaultSectionName, sortGroups, i + 1)

\* "Check for prefixed ... names": the keys that include name, are not name
\* and are not ordered yet, in key order
RECURSIVE PushPrefixed(_, _, _, _)
PushPrefixed(ordered, keys, name, k) ==
    IF k > Len(keys) THEN ordered
    ELSE PushPrefixed(IF ~Contains(ordered, keys[k]) /\ Includes(keys[k], name)
                         /\ keys[k] # name
                      THEN Append(ordered, keys[k]) ELSE ordered,
                      keys, name, k + 1)

\* the forEach over the fixed order (colorOrder, or the keys of CARD_TYPE_GROUPS)
RECURSIVE OrderLoop(_, _, _, _)
OrderLoop(ordered, lbs, order, i) ==
    IF i > Len(order) THEN ordered
    ELSE OrderLoop(PushPrefixed(IF OM_Has(lbs, order[i])
                                THEN Append(ordered, order[i]) ELSE ordered,
                                lbs.keys, order[i], 1),
                   lbs, order, i + 1)

\* "Add any remaining sections that don't match the pattern"
RECURSIVE PushRemaining(_, _, _)
PushRemaining(ordered, keys, k) ==
    IF k > Len(keys) THEN ordered
    ELSE PushRemaining(IF ~Contains(ordered, keys[k]) THEN Append(ordered, keys[k]) ELSE ordered,
                       keys, k + 1)

\* the names of the fixed order that some key includes: the round of any
\* other name pushes nothing
MatchedNames(order, keys) ==
    LET Matched(name) == \E k \in DOMAIN keys : Includes(keys[k], name)
    IN  SelectSeq(order, Matched)

OrderSections(initial, lbs, order) ==
    PushRemaining(OrderLoop(initial, lbs, MatchedNames(order, lbs.keys), 1), lbs.keys, 1)

\* lines 1395-1503: color grouping of a generic list
ColorOrdered(new) == Organized(OrderSections(<<>>, new, colorOrder), new)

ColorGrouping(secs, lbs, data, defaultSectionName) ==
    IF ~AllBucketsDefined(secs, lbs) THEN Raised
    ELSE ColorOrdered(ColorGroupLoop(OM_Empty, secs, lbs, data, defaultSectionName, 1))

\* lines 1505-1601: type grouping of a decklist
TypeOrdered(new) ==
    Organized(OrderSections(IF OM_Has(new, S_Commander) THEN <<S_Commander>> ELSE <<>>,
                            new, typeOrder),
              new)

TypeGrouping(secs, lbs, data, defaultSectionName, sortGroups) ==
    IF ~AllBucketsDefined(secs, lbs) THEN Raised
    ELSE TypeOrdered(TypeGroupLoop(OM_Empty, secs, lbs, data, defaultSectionName,
                                   sortGroups, 1))

\* lines 1602-1623: the cost sort inside the existing sections
RECURSIVE CostSortLoop(_, _, _, _)
CostSortLoop(lbs, secs, data, i) ==
    IF i > Len(secs) THEN lbs
    ELSE LET sectionCards == Filter(OM_Get(lbs, secs[i]), IsCard)
             otherLines == Filter(OM_Get(lbs, secs[i]), IsNotCard)
         IN  CostSortLoop(IF Len(sectionCards) > 0
                          THEN OM_Set(lbs, secs[i],
                                      sortCardsByManaCost(sectionCards, data) \o otherLines)
                          ELSE lbs,
                          secs, data, i + 1)

\* the cost path without its sort
CostSortOnly_Unsorted(secs, lbs, data) ==
    IF ~AllBucketsDefined(secs, lbs) THEN Raised
    ELSE Organized(secs, lbs)

CostSortOnly(secs, lbs, data) ==
    IF ~AllBucketsDefined(secs, lbs) THEN Raised
    ELSE Organized(secs, CostSortLoop(lbs, secs, data, 1))

\* the conditions of the if / else if chain at lines 1395, 1505, 1602
\* the conditions without the mobile mode
ReorgPath_NoMobileMode(generic, st) ==
    IF generic THEN "color"
    ELSE IF st.enableAdvancedFeatures /\ st.groupByType THEN "type"
    ELSE IF st.sortByManaCost THEN "cost"
    ELSE "none"

ReorgPath(generic, st) ==
    IF generic THEN "color"
    ELSE IF (st.enableAdvancedFeatures /\ st.groupByType) \/ st.mobileMode THEN "type"
    ELSE IF st.sortByManaCost \/ st.mobileMode THEN "cost"
    ELSE "none"

\* the mutually exclusive reorganization
Reorganize(generic, st, secs, lbs, data) ==
    LET path == ReorgPath(generic, st)
    IN  CASE path = "color" -> ColorGrouping(secs, lbs, data, DefaultSectionName(generic))
          [] path = "type"  -> TypeGrouping(secs, lbs, data, DefaultSectionName(generic),
                                            st.sortByManaCost \/ st.mobileMode)
          [] path = "cost"  -> CostSortOnly(secs, lbs, data)
          [] OTHER          -> Organized(secs, lbs)

----------------------------------------------------------------------------
(* renderDecklist: the aggregator (the counts of lines 1651-1838; the DOM  *)
(* and the prices are not modelled)                                        *)

\* a line's part in the missing counts: lines 1763-1788
LineMissing(line) ==
    LET lineCardCount == Field(line, "cardCount", 0)
        lineGlobalCount == IF line.globalCount = Null THEN -1 ELSE line.globalCount[1]
    IN  IF lineGlobalCount # -1 /\ lineCardCount > lineGlobalCount
        THEN lineCardCount - lineGlobalCount
        ELSE 0

\* m[k] = (m[k] || 0) + n on a map kept as a function
AddTo(m, k, n) ==
    [x \in DOMAIN m \cup {k} |-> (IF x \in DOMAIN m THEN m[x] ELSE 0) + (IF x = k THEN n ELSE 0)]

\* the overall map with the shortfall of a line put in place of the sum
AddOverallMissing_Overwrite(m, cardId, n) ==
    [x \in DOMAIN m \cup {cardId} |-> IF x = cardId THEN n ELSE m[x]]

\* missingCardCounts[cardId] = (missingCardCounts[cardId] || 0) + n
AddOverallMissing(m, cardId, n) == AddTo(m, cardId, n)

\* sectionMissingCardCounts[cardId] = (sectionMissingCardCounts[cardId] || 0) + n
AddSectionMissing(m, cardId, n) == AddTo(m, cardId, n)

\* linesBySection[section].forEach: the card lines add to the totals; the
\* missing map of the section being rendered is the last of
\* sectionMissingCardCounts
RECURSIVE AggregateLines(_, _, _, _)
AggregateLines(agg, section, lines, i) ==
    IF i > Len(lines) THEN agg
    ELSE LET line == lines[i]
             short == IsCard(line) /\ LineMissing(line) > 0
             missing == IF short
                        THEN AddOverallMissing(agg.missingCardCounts,
                                               nameToId(line.cardName), LineMissing(line))
                        ELSE agg.missingCardCounts
             ofSection == IF short
                          THEN [agg.sectionMissingCardCounts EXCEPT
                                   ![Len(agg.sectionMissingCardCounts)] =
                                       AddSectionMissing(@, nameToId(line.cardName),
                                                         LineMissing(line))]
                          ELSE agg.sectionMissingCardCounts
             totals == IF IsCard(line)
                       THEN AddTo(agg.sectionTotalCounts, section, Field(line, "cardCount", 0))
                       ELSE agg.sectionTotalCounts
         IN  AggregateLines([sectionTotalCounts |-> totals, missingCardCounts |-> missing,
                             sectionMissingCardCounts |-> ofSection],
                            section, lines, i + 1)

\* const sectionMissingCardCounts: CardCounts = {} (line 1687)
NewSection(agg) == [agg EXCEPT !.sectionMissingCardCounts = Append(@, <<>>)]

\* sections.forEach((section) => ...)
RECURSIVE AggregateSections(_, _, _, _)
AggregateSections(agg, secs, lbs, i) ==
    IF i > Len(secs) THEN agg
    ELSE AggregateSections(AggregateLines(NewSection(agg), secs[i], OM_Get(lbs, secs[i]), 1),
                           secs, lbs, i + 1)

\* the totals of a render: sectionTotalCounts starts at 0 for every listed
\* name, missingCardCounts empty
Aggregated(agg) ==
    [ok |-> TRUE,
     sectionTotalCounts |-> agg.sectionTotalCounts,
     missingCardCounts |-> agg.missingCardCounts,
     sectionMissingCardCounts |-> agg.sectionMissingCardCounts]

Aggregate(secs, lbs) ==
    IF ~AllBucketsDefined(secs, lbs) THEN Raised
    ELSE Aggregated(AggregateSections([sectionTotalCounts |-> [n \in Range(secs) |-> 0],
                                       missingCardCounts |-> <<>>,
                                       sectionMissingCardCounts |-> <<>>],
                                      secs, lbs, 1))

\* Object.values(m).reduce((acc, v) => acc + v, 0)
RECURSIVE SumValues(_)
SumValues(m) ==
    IF DOMAIN m = {} THEN 0
    ELSE LET k == CHOOSE x \in DOMAIN m : TRUE
         IN  m[k] + SumValues([x \in DOMAIN m \ {k} |-> m[x]])

\* calculateDeckStatistics: totalCards (lines 396-405)
RECURSIVE StatsTotalCards(_)
StatsTotalCards(lines) ==
    IF lines = <<>> THEN 0
    ELSE LET line == Head(lines)
             counted == IsCard(line) /\ line.cardName # <<>> /\ line.cardCount # 0
         IN  (IF counted THEN line.cardCount ELSE 0) + StatsTotalCards(Tail(lines))

----------------------------------------------------------------------------
(* Inputs                                                                  *)

\* the longest source text of a render, in lines
MaxLines == 3

N_Elf == <<"E","l","f">>
N_Bog == <<"B","o","g">>
N_Ox == <<"O","x">>

\* the lines a source text is made of: two headings, two cards, a card
\* without a name, a commander, a comment and the empty line
RenderLineChoices ==
    { <<"A">>, <<"B">>,
      <<"2"," ","E","l","f">>,
      <<"1"," ","B","o","g">>,
      <<"3"," ">>,
      <<"1"," ","O","x"," ","*","C","M","D","R","*">>,
      <<"#"," ","c">>,
      <<>> }

\* source.split("\n") is never empty
SourceChoices ==
    UNION {[1..n -> RenderLineChoices] : n \in 1..MaxLines}

\* the collection: none loaded, or three copies of Elf
CollectionChoices == {<<>>, [id \in {nameToId(N_Elf)} |-> 3]}

\* what the card service knows: nothing, or the three cards
ScryfallChoices ==
    { <<>>,
      [id \in {nameToId(N_Elf), nameToId(N_Bog), nameToId(N_Ox)} |->
         CASE id = nameToId(N_Elf) ->
                [name |-> N_Elf, type_line |-> <<"C","r","e","a","t","u","r","e">>,
                 cmc |-> 1, color_identity |-> <<"G">>]
           [] id = nameToId(N_Bog) ->
                [name |-> N_Bog, type_line |-> <<"L","a","n","d">>,
                 cmc |-> 0, color_identity |-> <<>>]
           [] OTHER ->
                [name |-> N_Ox, type_line |-> <<"C","r","e","a","t","u","r","e">>,
                 cmc |-> 2, color_identity |-> <<"W", "R">>]] }

\* settings.decklist, the flags renderDecklist's pipeline reads
SettingsChoices ==
    [enableAdvancedFeatures : BOOLEAN, groupByType : BOOLEAN,
     mobileMode : BOOLEAN, sortByManaCost : BOOLEAN]

\* main.ts DEFAULT_SETTINGS
DEFAULT_SETTINGS ==
    [enableAdvancedFeatures |-> TRUE, groupByType |-> FALSE,
     mobileMode |-> FALSE, sortByManaCost |-> FALSE]

----------------------------------------------------------------------------
(* renderDecklist                                                          *)

IdleFetch ==
    /\ fetchNames = <<>>
    /\ fetchIdx = 0
    /\ batchState = BatchInit
    /\ fetchCalls = <<>>
    /\ fetchResult = <<>>

IdleRender ==
    /\ settings = DEFAULT_SETTINGS
    /\ sections = <<>>
    /\ linesBySection = OM_Empty
    /\ preReorg = Organized(<<>>, OM_Empty)
    /\ cardDataByCardId = <<>>
    /\ fetchFailed = {}
    /\ sectionTotalCounts = <<>>
    /\ missingCardCounts = <<>>
    /\ sectionMissingCardCounts = <<>>
    /\ statistics = <<>>
    /\ thrown = ""

\* a render is called with a source text, the collection counts and the
\* list kind
Init ==
    /\ IdleOther
    /\ pc = "start"
    /\ rawLines \in SourceChoices
    /\ cardCounts \in CollectionChoices
    /\ parsedLines = <<>>
    /\ isGenericList \in BOOLEAN
    /\ IdleRender
    /\ IdleFetch

\* renderDecklist up to its await (lines 1319-1359): the lines are parsed
\* and sectioned, the distinct names are handed to the fetcher
RenderStart ==
    /\ UNCHANGED otherVars
    /\ pc = "start"
    /\ LET parsed == parseLines(rawLines, cardCounts)
           st == Sectioner(parsed, isGenericList)
       IN  /\ parsedLines' = parsed
           /\ sections' = st.sections
           /\ linesBySection' = st.linesBySection
           /\ fetchNames' = buildDistinctCardNamesList(parsed)
    /\ pc' = "fetching"
    /\ UNCHANGED <<rawLines, cardCounts, isGenericList, settings, preReorg,
                   cardDataByCardId, fetchFailed, sectionTotalCounts,
                   missingCardCounts, sectionMissingCardCounts, statistics, thrown,
                   fetchIdx, batchState, fetchCalls, fetchResult>>

\* the end of renderDecklist: the values of its three stages are stored
Finish(data, st, extracted, organized, totals) ==
    /\ cardDataByCardId' = data
    \* settings.decklist.showStatistics keeps its default, false:
    \* createStatisticsSection returns before calculateDeckStatistics
    /\ UNCHANGED statistics
    /\ settings' = st
    /\ IF extracted.ok
       THEN preReorg' = extracted
       ELSE UNCHANGED preReorg
    /\ IF organized.ok
       THEN /\ sections' = organized.sections
            /\ linesBySection' = organized.linesBySection
       ELSE UNCHANGED <<sections, linesBySection>>
    /\ IF totals.ok
       THEN /\ sectionTotalCounts' = totals.sectionTotalCounts
            /\ missingCardCounts' = totals.missingCardCounts
            /\ sectionMissingCardCounts' = totals.sectionMissingCardCounts
            /\ thrown' = ""
            /\ pc' = "done"
       ELSE /\ UNCHANGED <<sectionTotalCounts, missingCardCounts,
                           sectionMissingCardCounts>>
            /\ thrown' = "TypeError"
            /\ pc' = "raised"

\* lines 1625-2309: the totals of the organized sections
ContinueOrganized(data, st, extracted, organized) ==
    Finish(data, st, extracted, organized,
           IF organized.ok
           THEN Aggregate(organized.sections, organized.linesBySection)
           ELSE Raised)

\* lines 1394-1623: the reorganization the settings st select
ContinueExtracted(data, st, extracted) ==
    ContinueOrganized(data, st, extracted,
                      IF extracted.ok
                      THEN Reorganize(isGenericList, st, extracted.sections,
                                      extracted.linesBySection, data)
                      ELSE Raised)

\* renderDecklist after its await (lines 1360-2309), run to completion
\* with the metadata map data: commander extraction (decklists only), the
\* reorganization, the totals; a TypeError of a stage ends the render
Continuation(data, st) ==
    ContinueExtracted(data, st,
                      IF ~isGenericList
                      THEN ExtractCommanders(sections, linesBySection)
                      ELSE Organized(sections, linesBySection))

\* the calls fetchCardDataFromScryfall makes for the render's names
RenderCalls == BatchCalls(BatchLoop(BatchInit, fetchNames, 1))

\* the map fetchCardDataFromScryfall resolves to when the service knows db
FetchedFrom(db, calls) ==
    MergeBatches([k \in DOMAIN calls |-> ScryfallData(db, calls[k])])

\* every getMultipleCardData call resolves: the batches are merged in
\* submission order and the render goes on with the merged map
FetchResolve ==
    /\ UNCHANGED otherVars
    /\ pc = "fetching"
    /\ \E db \in ScryfallChoices, st \in SettingsChoices :
          /\ fetchCalls' = RenderCalls
          /\ fetchResult' = FetchedFrom(db, RenderCalls)
          /\ fetchFailed' = {}
          /\ Continuation(fetchResult', st)
    /\ UNCHANGED <<rawLines, cardCounts, parsedLines, isGenericList,
                   fetchNames, fetchIdx, batchState>>

\* at least one getMultipleCardData call rejects: Promise.all rejects, the
\* catch of renderDecklist logs, and the render goes on with the map it
\* started with, the empty one
FetchReject ==
    /\ UNCHANGED otherVars
    /\ pc = "fetching"
    /\ \E rejected \in SUBSET (DOMAIN RenderCalls) \ {{}}, st \in SettingsChoices :
          /\ fetchCalls' = RenderCalls
          /\ fetchFailed' = rejected
          /\ Continuation(<<>>, st)
    /\ UNCHANGED <<rawLines, cardCounts, parsedLines, isGenericList,
                   fetchNames, fetchIdx, batchState, fetchResult>>

Next == RenderStart \/ FetchResolve \/ FetchReject

Spec == Init /\ [][Next]_vars

----------------------------------------------------------------------------
(* parseLines on its own                                                   *)

\* the longest of the exhaustively enumerated lines, in characters
MaxShortLen == 4

ShortAlphabet == {"0", "2", "x", " ", "#", "[", "|", "A"}

ShortLines == UNION {[1..n -> ShortAlphabet] : n \in 0..MaxShortLen}

N_Forest == <<"F","o","r","e","s","t">>
N_FireIce == <<"F","i","r","e"," ","/","/"," ","I","c","e">>
T_SetCode == <<" ","(","M","2","1",")"," ","2","5","0">>
T_Comment == <<" ","#","f","o","i","l">>
T_Cmdr == <<" ">> \o CMDR_MARKER

\* card lines put together: a count, a name, and optionally a set code, an
\* inline comment and the commander marker
ComposedLines ==
    {count \o <<" ">> \o name \o setCode \o comment \o cmdr :
        count \in {<<"3">>, <<"4", "x">>, <<"0">>, <<"1", "2">>},
        name \in {N_Forest, N_FireIce, <<>>},
        setCode \in {<<>>, T_SetCode},
        comment \in {<<>>, T_Comment},
        cmdr \in {<<>>, T_Cmdr}}

ExampleLines ==
    { <<"4","x"," ","L","i","g","h","t","n","i","n","g"," ","B","o","l","t">>,
      <<"1"," ","A","t","r","a","x","a",","," ","P","r","a","e","t","o","r","s","'"," ","V","o","i","c","e"," ","*","C","M","D","R","*">>,
      <<"n","o","t"," ","a"," ","v","a","l","i","d"," ","l","i","n","e">>,
      <<"[","S","i","d","e","b","o","a","r","d","]">>,
      <<"1","s","t"," ","2"," ","F","o","r","e","s","t">>,
      <<"#"," ","4"," ","F","o","r","e","s","t">>,
      <<"*","C","M","D","R","*">> }

ParseLineChoices == ShortLines \cup ComposedLines \cup ExampleLines

ParseCollectionChoices ==
    {<<>>, [id \in {nameToId(N_Forest), <<"a">>} |-> IF id = <<"a">> THEN 1 ELSE 2]}

InitParse ==
    /\ IdleOther
    /\ pc = "parse"
    /\ rawLines \in {<<line>> : line \in ParseLineChoices}
    /\ cardCounts \in ParseCollectionChoices
    /\ parsedLines = <<>>
    /\ isGenericList = FALSE
    /\ IdleRender
    /\ IdleFetch

\* parseLines(rawLines, cardCounts)
ParseStep ==
    /\ UNCHANGED otherVars
    /\ pc = "parse"
    /\ parsedLines' = parseLines(rawLines, cardCounts)
    /\ pc' = "parsed"
    /\ UNCHANGED <<rawLines, cardCounts, renderVars, fetchVars>>

NextParse == ParseStep

SpecParse == InitParse /\ [][NextParse]_vars

----------------------------------------------------------------------------
(* fetchCardDataFromScryfall on its own                                    *)

\* the most names handed to the fetcher
MaxNames == 160

\* the n-th distinct card name: "C" and three digits
NthName(n) ==
    <<"C", DigitChars[(n \div 100) + 1], DigitChars[((n \div 10) % 10) + 1],
      DigitChars[(n % 10) + 1]>>

\* a service that knows every name asked for, with its printed name
FullDb(names) ==
    [id \in {nameToId(names[i]) : i \in DOMAIN names} |->
        [name |-> (CHOOSE n \in Range(names) : nameToId(n) = id),
         type_line |-> <<>>, cmc |-> 0, color_identity |-> <<>>]]

InitFetch ==
    /\ IdleOther
    /\ pc = "batching"
    /\ fetchNames \in {[i \in 1..n |-> NthName(i)] : n \in 0..MaxNames}
    /\ fetchIdx = 0
    /\ batchState = BatchInit
    /\ fetchCalls = <<>>
    /\ fetchResult = <<>>
    /\ rawLines = <<>>
    /\ cardCounts = <<>>
    /\ parsedLines = <<>>
    /\ isGenericList = FALSE
    /\ IdleRender

\* one round of distinctCardNames.forEach (lines 1281-1288)
BatchPush ==
    /\ UNCHANGED otherVars
    /\ pc = "batching"
    /\ fetchIdx < Len(fetchNames)
    /\ batchState' = BatchStep(batchState, fetchNames[fetchIdx + 1])
    /\ fetchIdx' = fetchIdx + 1
    /\ UNCHANGED <<pc, fetchNames, fetchCalls, fetchResult, parseVars, renderVars>>

\* the loop is over: the current batch is pushed and every batch is handed
\* to getMultipleCardData (lines 1290-1294)
BatchSubmit ==
    /\ UNCHANGED otherVars
    /\ pc = "batching"
    /\ fetchIdx = Len(fetchNames)
    /\ batchState' = BatchEnd(batchState)
    /\ fetchCalls' = BatchCalls(batchState')
    /\ pc' = "awaiting"
    /\ UNCHANGED <<fetchNames, fetchIdx, fetchResult, parseVars, renderVars>>

\* every call resolves and the responses are merged (lines 1295-1308)
FetchMerge ==
    /\ UNCHANGED otherVars
    /\ pc = "awaiting"
    /\ \E db \in {<<>>, FullDb(fetchNames)} :
          fetchResult' = FetchedFrom(db, fetchCalls)
    /\ pc' = "resolved"
    /\ UNCHANGED <<fetchNames, fetchIdx, batchState, fetchCalls, parseVars, renderVars>>

\* a call rejects: Promise.all, and with it the fetcher, rejects
FetchFail ==
    /\ UNCHANGED otherVars
    /\ pc = "awaiting"
    /\ \E k \in DOMAIN fetchCalls : fetchFailed' = {k}
    /\ pc' = "rejected"
    /\ UNCHANGED <<fetchVars, parseVars, isGenericList, settings, sections,
                   linesBySection, preReorg, cardDataByCardId, sectionTotalCounts,
                   missingCardCounts, sectionMissingCardCounts, statistics, thrown>>

NextFetch == BatchPush \/ BatchSubmit \/ FetchMerge \/ FetchFail

SpecFetch == InitFetch /\ [][NextFetch]_vars

----------------------------------------------------------------------------
(* Properties                                                              *)

Max(a, b) == IF a >= b THEN a ELSE b

\* the Card lines of the source, by identity
CardLinesOf(id) ==
    Filter(parsedLines, LAMBDA line : IsCard(line) /\ nameToId(line.cardName) = id)

RECURSIVE SumCardCounts(_)
SumCardCounts(lines) ==
    IF lines = <<>> THEN 0 ELSE Head(lines).cardCount + SumCardCounts(Tail(lines))

CardIds == {nameToId(parsedLines[i].cardName) :
               i \in {k \in DOMAIN parsedLines : IsCard(parsedLines[k])}}

MissingOf(id) == IF id \in DOMAIN missingCardCounts THEN missingCardCounts[id] ELSE 0

\* C1: for every card identity, the missing count the render records is
\* max(0, sum of the cardCounts of the identity's Card lines - globalCount)
\* when the lines carry a globalCount, and no missing count is recorded
\* when they carry none.
C1_MissingIsShortfallOfSum ==
    pc = "done" =>
        \A id \in CardIds :
            LET lines == CardLinesOf(id)
                globalCount == lines[1].globalCount
            IN  IF globalCount = Null
                THEN id \notin DOMAIN missingCardCounts
                ELSE MissingOf(id) = Max(0, SumCardCounts(lines) - globalCount[1])

Ceil(n, d) == (n + d - 1) \div d

\* C2: n names are fetched in exactly ceil(n / 75) calls, no call has more
\* than 75 identities, every identity is in exactly one call in submission
\* order, and the merged map has one entry per distinct returned identity.
C2_BatchesPartitionTheNames ==
    /\ pc \in {"awaiting", "resolved"} =>
          /\ Len(fetchCalls) = Ceil(Len(fetchNames), MAX_SCRYFALL_BATCH_SIZE)
          /\ \A k \in DOMAIN fetchCalls : Len(fetchCalls[k]) <= MAX_SCRYFALL_BATCH_SIZE
          /\ Flatten(fetchCalls) = [i \in DOMAIN fetchNames |-> nameToId(fetchNames[i])]
    /\ pc = "resolved" =>
          \A id \in DOMAIN fetchResult : nameToId(fetchResult[id].name) = id

\* C3: for a render without Commander lines, the section totals add up to
\* the totalCards of the statistics.
C3_SectionTotalsAddUpToTotalCards ==
    (pc = "done" /\ Filter(parsedLines, IsCommander) = <<>>) =>
        SumValues(sectionTotalCounts) = StatsTotalCards(parsedLines)

\* C4: a line classified Card has cardCount >= 1, unless its errors
\* are non-empty.
C4_CardCountAtLeastOne ==
    pc = "parsed" =>
        \A i \in DOMAIN parsedLines :
            IsCard(parsedLines[i]) =>
                \/ parsedLines[i].cardCount >= 1
                \/ parsedLines[i].errors # <<>>

\* C5: after sectioning every listed section has a bucket, and no later
\* stage raises when it iterates the listed sections.
C5_EverySectionHasBucket ==
    /\ pc = "fetching" => AllBucketsDefined(sections, linesBySection)
    /\ pc # "raised"

Unreorganized ==
    /\ sections = preReorg.sections
    /\ linesBySection = preReorg.linesBySection

\* C6: with an empty metadata map the grouping and cost-sort
\* transforms leave the section names, their order and the order of the
\* lines in each section unchanged.
C6_EmptyMetadataPassesThrough ==
    (pc = "done" /\ cardDataByCardId = <<>>) => Unreorganized

\* C7: when the fetch rejects, renderDecklist does not raise and finishes
\* with an empty metadata map.
C7_FetchRejectionIsAbsorbed ==
    (pc \in {"done", "raised"} /\ fetchFailed # {}) =>
        /\ pc = "done"
        /\ cardDataByCardId = <<>>

HasSetCode(str) == \E p \in DOMAIN str : SetCodeAt(str, p)

\* C8: the name of a Card line whose text carries a set-code annotation
\* "(XXX) NNN" does not contain the annotation, with or without an inline
\* "#" comment.
C8_SetCodeNotInCardName ==
    pc = "parsed" =>
        \A i \in DOMAIN parsedLines :
            (IsCard(parsedLines[i]) /\ HasSetCode(rawLines[i])) =>
                ~HasSetCode(parsedLines[i].cardName)

\* C9: a non-blank line is a section heading exactly when its first
\* character is neither a digit nor "#", and the heading's text is the line.
C9_HeadingIffFirstCharNotDigitNorHash ==
    pc = "parsed" =>
        \A i \in DOMAIN parsedLines :
            LET line == rawLines[i]
                parsed == parsedLines[i]
            IN  (Len(line) > 0 /\ ~blankLineRE(line)) =>
                    /\ parsed.lineType = "section"
                          <=> (~IsDigit(line[1]) /\ line[1] # COMMENT_DELIMITER)
                    /\ parsed.lineType = "section" => parsed.text = line

\* the text begins with an integer, an optional "x" and one whitespace
BeginsWithCount(text) == LineMatchSpaceAt(text, 1) # 0

\* C10: a line that reaches the card rule is an Error line, its only error
\* the invalid-line message, exactly when its card text does not begin with
\* an integer, an optional "x" and one whitespace; when it does, the line
\* is a Card whose cardCount is that integer and whose name is the rest.
C10_ErrorIffNoLeadingCount ==
    pc = "parsed" =>
        \A i \in DOMAIN parsedLines :
            LET line == rawLines[i]
                parsed == parsedLines[i]
                text == CardText(line)
                spaceAt == LineMatchSpaceAt(text, 1)
            IN  parsed.lineType \in {"card", "error"} =>
                    IF BeginsWithCount(text)
                    THEN /\ parsed.lineType = "card"
                         /\ parsed.cardCount = ParseInt(SubSeq(text, 1, DigitRunEnd(text, 1)))
                         /\ parsed.cardName = Tail_(text, spaceAt + 1)
                    ELSE /\ parsed.lineType = "error"
                         /\ parsed.errors = << <<"invalid line: ">> \o line >>

\* the line reaches the commander rule: it is not blank, not a heading and
\* not a comment line
ReachesCardRules(line) ==
    /\ Len(line) > 0
    /\ ~blankLineRE(line)
    /\ ~headingMatchRE(line)
    /\ ~StartsWith(line, <<COMMENT_DELIMITER, " ">>)

\* C11: a line with the marker "*CMDR*" whose remainder matches the card
\* grammar is a Commander line with cardCount 1 and a name without set code
\* and without inline comment; if the remainder does not match, the line
\* is a Card or an Error line.
C11_CommanderLineCountOneCleanName ==
    pc = "parsed" =>
        \A i \in DOMAIN parsedLines :
            LET line == rawLines[i]
                parsed == parsedLines[i]
            IN  (ReachesCardRules(line) /\ Includes(line, CMDR_MARKER)) =>
                    IF CommanderParts(line) # <<>>
                    THEN /\ parsed.lineType = "commander"
                         /\ parsed.cardCount = 1
                         /\ ~HasSetCode(parsed.cardName)
                         /\ ~Includes(parsed.cardName, <<COMMENT_DELIMITER>>)
                    ELSE parsed.lineType \in {"card", "error"}

\* C12: within one parse, if the collection is empty every Card and
\* Commander line has the absent globalCount; otherwise every Card and
\* Commander line has the collection's count of its identity, or 0 when the
\* collection does not have the identity.
C12_GlobalCountIsDocumentWide ==
    pc # "start" =>
        \A i \in DOMAIN parsedLines :
            LET parsed == parsedLines[i]
                id == nameToId(parsed.cardName)
            IN  IsCardOrCommander(parsed) =>
                    IF DOMAIN cardCounts = {}
                    THEN parsed.globalCount = Null
                    ELSE /\ parsed.globalCount # Null
                         /\ parsed.globalCount[1] \in Nat
                         /\ parsed.globalCount[1] =
                                (IF id \in DOMAIN cardCounts THEN cardCounts[id] ELSE 0)

\* a parse with a collection: a card the collection has, a card it does
\* not have and a commander it does not have
C12_Witness ==
    /\ pc # "start"
    /\ DOMAIN cardCounts # {}
    /\ \E i, j, k \in DOMAIN parsedLines :
          /\ IsCard(parsedLines[i]) /\ parsedLines[i].globalCount = Some(3)
          /\ IsCard(parsedLines[j]) /\ parsedLines[j].globalCount = Some(0)
          /\ IsCommander(parsedLines[k]) /\ parsedLines[k].globalCount = Some(0)

----------------------------------------------------------------------------
(* The sectioner on longer sources                                         *)

\* the longest source text handed to the sectioner, in lines
MaxSectionLines == 5

\* two headings, the default deck heading, two cards and a comment
SectionLineChoices ==
    { <<"A">>, <<"B">>, DEFAULT_DECK_SECTION_NAME,
      <<"2"," ","E","l","f">>,
      <<"1"," ","B","o","g">>,
      <<"#"," ","c">> }

InitSection ==
    /\ IdleOther
    /\ pc = "start"
    /\ rawLines \in UNION {[1..n -> SectionLineChoices] : n \in 1..MaxSectionLines}
    /\ cardCounts = <<>>
    /\ parsedLines = <<>>
    /\ isGenericList \in BOOLEAN
    /\ IdleRender
    /\ IdleFetch

NextSection == RenderStart

SpecSection == InitSection /\ [][NextSection]_vars

IsSection(line) == line.lineType = "section"

\* the name of the section the i-th line is under: the text of the last
\* heading before it, the default name if there is none
SectionOfLine(i) ==
    LET headings == {k \in 1..(i - 1) : IsSection(parsedLines[k])}
    IN  IF headings = {} THEN DefaultSectionName(isGenericList)
        ELSE parsedLines[CHOOSE k \in headings : \A h \in headings : h <= k].text

\* the lines under a name, in the order of the source
LinesUnder(name) ==
    LET Under(i) == ~IsSection(parsedLines[i]) /\ SectionOfLine(i) = name
        indices == SelectSeq([i \in DOMAIN parsedLines |-> i], Under)
    IN  [k \in DOMAIN indices |-> parsedLines[indices[k]]]

NamesWithLines ==
    {SectionOfLine(i) : i \in {k \in DOMAIN parsedLines : ~IsSection(parsedLines[k])}}

\* C13: the sectioner puts every line that is not a heading into exactly
\* one bucket, the one named by the last heading before it (the default name
\* if none), in source order; the lines under a heading that recurs are in
\* one bucket, and a first line that is not a heading starts the default
\* section.
C13_LinesInBucketOfLastHeading ==
    pc = "fetching" =>
        /\ Range(linesBySection.keys) = NamesWithLines
        /\ \A j, k \in DOMAIN linesBySection.keys :
              linesBySection.keys[j] = linesBySection.keys[k] => j = k
        /\ \A name \in NamesWithLines : OM_Get(linesBySection, name) = LinesUnder(name)
        /\ ~IsSection(parsedLines[1]) => sections[1] = DefaultSectionName(isGenericList)

\* a source whose first line is a card and in which the heading A recurs
\* with a card under each occurrence: the first card is in the default
\* bucket, the other two are in the one bucket of A
C13_Witness ==
    /\ pc = "fetching"
    /\ Len(parsedLines) = 5
    /\ IsCard(parsedLines[1])
    /\ IsSection(parsedLines[2]) /\ parsedLines[2].text = <<"A">>
    /\ IsCard(parsedLines[3])
    /\ IsSection(parsedLines[4]) /\ parsedLines[4].text = <<"A">>
    /\ IsCard(parsedLines[5])
    /\ sections = <<DefaultSectionName(isGenericList), <<"A">>, <<"A">> >>
    /\ OM_Get(linesBySection, DefaultSectionName(isGenericList)) = <<parsedLines[1]>>
    /\ OM_Get(linesBySection, <<"A">>) = <<parsedLines[3], parsedLines[5]>>

\* the sections as the sectioner leaves them, before commander extraction
Sectioned == Sectioner(parsedLines, isGenericList)

SameBuckets(names, before, after) ==
    \A i \in DOMAIN names :
        /\ OM_Has(after, names[i])
        /\ OM_Get(after, names[i]) = OM_Get(before, names[i])

\* C14: for a decklist, after commander extraction the "Commander" section
\* is first and holds every Commander line of the input once, in input
\* order, no other section holds a Commander line, and the other lines stay
\* in their sections in order; without Commander lines the sections are
\* unchanged and there is no "Commander" section; a generic list is left
\* as it is.
C14_CommandersExtractedOnce ==
    pc = "done" =>
        LET before == Sectioned
            after == preReorg
            commanders == Filter(parsedLines, IsCommander)
        IN  IF isGenericList \/ commanders = <<>>
            THEN /\ after.sections = before.sections
                 /\ SameBuckets(before.sections, before.linesBySection, after.linesBySection)
                 /\ ~isGenericList => ~OM_Has(after.linesBySection, S_Commander)
            ELSE /\ after.sections = <<S_Commander>> \o before.sections
                 /\ OM_Get(after.linesBySection, S_Commander) = commanders
                 /\ \A i \in DOMAIN before.sections :
                       LET name == before.sections[i]
                       IN  name # S_Commander =>
                               OM_Get(after.linesBySection, name) =
                                   Filter(OM_Get(before.linesBySection, name), IsNotCommander)

\* the outcome of the one path that the list kind and the settings select:
\* color grouping for a generic list; for a decklist type grouping, else
\* cost sort, else nothing
OutcomeOfSelectedPath ==
    LET secs == preReorg.sections
        lbs == preReorg.linesBySection
        default == DefaultSectionName(isGenericList)
        byCost == settings.sortByManaCost \/ settings.mobileMode
        byType == (settings.enableAdvancedFeatures /\ settings.groupByType)
                      \/ settings.mobileMode
    IN  IF isGenericList THEN ColorGrouping(secs, lbs, cardDataByCardId, default)
        ELSE IF byType THEN TypeGrouping(secs, lbs, cardDataByCardId, default, byCost)
        ELSE IF byCost THEN CostSortOnly(secs, lbs, cardDataByCardId)
        ELSE Organized(secs, lbs)

IsOutcome(organized) ==
    /\ sections = organized.sections
    /\ linesBySection = organized.linesBySection

\* C15: exactly one reorganization path is taken: color grouping for a
\* generic list whatever the settings; for a decklist type grouping iff
\* (enableAdvancedFeatures and groupByType) or mobileMode, otherwise cost
\* sort iff sortByManaCost or mobileMode, otherwise none, and then the
\* sections and the lines are passed through unchanged.
C15_OneReorganizationPath ==
    pc = "done" =>
        /\ IsOutcome(OutcomeOfSelectedPath)
        /\ (~isGenericList /\ ~settings.mobileMode /\ ~settings.sortByManaCost
               /\ ~(settings.enableAdvancedFeatures /\ settings.groupByType))
              => Unreorganized

\* a decklist in mobile mode with grouping by type switched off: its cards
\* are regrouped under type groups with metadata
C15_Witness ==
    /\ pc = "done"
    /\ ~isGenericList
    /\ settings.mobileMode /\ ~settings.groupByType /\ ~settings.sortByManaCost
    /\ cardDataByCardId # <<>>
    /\ sections = <<CARD_TYPE_GROUPS[1].group, CARD_TYPE_GROUPS[7].group>>
    /\ ~Unreorganized

TotalOf(name) == IF name \in DOMAIN sectionTotalCounts THEN sectionTotalCounts[name] ELSE 0

\* C16: the total of every section is the sum of cardCount over the Card
\* lines of the section, and the overall total is the sum of cardCount over
\* all Card lines of the input, each Card line counted once; the other
\* lines add nothing.
C16_TotalsCountEachCardLineOnce ==
    pc = "done" =>
        /\ \A k \in DOMAIN linesBySection.keys :
              Contains(sections, linesBySection.keys[k]) =>
                  TotalOf(linesBySection.keys[k])
                      = SumCardCounts(Filter(linesBySection.val[k], IsCard))
        /\ SumValues(sectionTotalCounts) = SumCardCounts(Filter(parsedLines, IsCard))

\* the missing count of a section for an identity: the sum of
\* max(0, cardCount - globalCount) over its Card lines of the identity that
\* have a globalCount
RECURSIVE SectionMissingOf(_, _)
SectionMissingOf(lines, id) ==
    IF lines = <<>> THEN 0
    ELSE LET line == Head(lines)
             counts == /\ IsCard(line)
                       /\ nameToId(line.cardName) = id
                       /\ line.globalCount # Null
         IN  (IF counts THEN Max(0, line.cardCount - line.globalCount[1]) ELSE 0)
                 + SectionMissingOf(Tail(lines), id)

At(m, id) == IF id \in DOMAIN m THEN m[id] ELSE 0

RECURSIVE SumOverSections(_, _)
SumOverSections(maps, id) ==
    IF maps = <<>> THEN 0 ELSE At(Head(maps), id) + SumOverSections(Tail(maps), id)

RECURSIVE SumOfTotals(_)
SumOfTotals(maps) ==
    IF maps = <<>> THEN 0 ELSE SumValues(Head(maps)) + SumOfTotals(Tail(maps))

\* C17: the overall buylist map is, for every identity, the sum over the
\* rendered sections of the section's missing count, which is the sum of
\* max(0, cardCount - globalCount) over the section's Card lines of the
\* identity with a globalCount; the buylist's card total is the sum of the
\* missing totals of the sections.
C17_BuylistIsSumOfSectionMissing ==
    pc = "done" =>
        /\ Len(sectionMissingCardCounts) = Len(sections)
        /\ \A k \in DOMAIN sections, id \in CardIds :
              At(sectionMissingCardCounts[k], id)
                  = SectionMissingOf(OM_Get(linesBySection, sections[k]), id)
        /\ \A id \in CardIds \cup DOMAIN missingCardCounts :
              At(missingCardCounts, id) = SumOverSections(sectionMissingCardCounts, id)
        /\ SumValues(missingCardCounts) = SumOfTotals(sectionMissingCardCounts)

\* a render with a collection in which one card is short in two sections
\* and another in one of them
C17_Witness ==
    /\ pc = "done"
    /\ Len(sections) = 2
    /\ sections[1] # sections[2]
    /\ \E id \in DOMAIN missingCardCounts :
          /\ At(sectionMissingCardCounts[1], id) > 0
          /\ At(sectionMissingCardCounts[2], id) > 0
          /\ missingCardCounts[id] = At(sectionMissingCardCounts[1], id)
                                       + At(sectionMissingCardCounts[2], id)

----------------------------------------------------------------------------
(* calculateDeckStatistics                                                 *)

S_LandGroup == CARD_TYPE_GROUPS[7].group

\* cmc >= 7 ? 7 : cmc, with cmc = cardData.cmc || 0
CmcKey(cardData) == IF cardData.cmc >= 7 THEN 7 ELSE cardData.cmc

\* the histograms before the first line (lines 386-396)
EmptyStatistics ==
    [manaCurve |-> <<>>,
     typeDistribution |-> <<>>,
     colorDistribution |-> [c \in {"W", "U", "B", "R", "G", "C"} |-> <<>>],
     totalCards |-> 0]

\* cardData.color_identity.forEach: the count is added under every color
RECURSIVE AddColors(_, _, _, _, _)
AddColors(dist, colors, cmcKey, count, i) ==
    IF i > Len(colors) THEN dist
    ELSE LET color == colors[i]
             old == IF color \in DOMAIN dist THEN dist[color] ELSE <<>>
         IN  AddColors([c \in DOMAIN dist \cup {color} |->
                           IF c = color THEN AddTo(old, cmcKey, count) ELSE dist[c]],
                       colors, cmcKey, count, i + 1)

\* lines 421-438: a truthy color_identity, the empty array included, is
\* walked; only a card without color_identity is counted under "C"
AddCardColors(dist, cardData, count) ==
    IF "color_identity" \in DOMAIN cardData
    THEN AddColors(dist, cardData.color_identity, CmcKey(cardData), count, 1)
    ELSE [dist EXCEPT !["C"] = AddTo(@, CmcKey(cardData), count)]

\* the cost histogram with every cost under its own key
AddToCurve_Uncapped(curve, cardData, count) == AddTo(curve, cardData.cmc, count)

\* lines 410-414
AddToCurve(curve, cardData, count) == AddTo(curve, CmcKey(cardData), count)

\* the callback of lines.forEach (lines 398-440)
StatisticsStep(st, line, data) ==
    IF ~(IsCard(line) /\ line.cardName # <<>> /\ line.cardCount # 0) THEN st
    ELSE LET cardData == CardDataOf(data, nameToId(line.cardName))
             count == line.cardCount
             cardType == getCardTypeGroup(cardData)
             notLand == cardType # S_LandGroup
         IN  IF cardData = <<>>
             THEN [st EXCEPT !.totalCards = @ + count]
             ELSE [manaCurve |-> IF notLand
                                 THEN AddToCurve(st.manaCurve, cardData[1], count)
                                 ELSE st.manaCurve,
                   typeDistribution |-> AddTo(st.typeDistribution, cardType, count),
                   colorDistribution |-> IF notLand
                                         THEN AddCardColors(st.colorDistribution,
                                                            cardData[1], count)
                                         ELSE st.colorDistribution,
                   totalCards |-> st.totalCards + count]

RECURSIVE StatisticsLoop(_, _, _, _)
StatisticsLoop(st, lines, data, i) ==
    IF i > Len(lines) THEN st
    ELSE StatisticsLoop(StatisticsStep(st, lines[i], data), lines, data, i + 1)

calculateDeckStatistics(lines, data) == StatisticsLoop(EmptyStatistics, lines, data, 1)

\* the longest list of lines handed to calculateDeckStatistics
MaxStatLines == 3

S_Creature == CARD_TYPE_GROUPS[1].group
S_Artifact == CARD_TYPE_GROUPS[4].group

\* a green creature, a land, a colorless artifact with an empty color
\* identity, an artifact without a color identity, a two-colored creature
\* of cost 9
StatsDb ==
    (nameToId(N_Elf) :> [name |-> N_Elf, type_line |-> S_Creature, cmc |-> 1,
                         color_identity |-> <<"G">>])
    @@ (nameToId(N_Bog) :> [name |-> N_Bog, type_line |-> S_LandGroup, cmc |-> 0,
                            color_identity |-> <<>>])
    @@ (<<"o","r","b">> :> [name |-> <<"O","r","b">>, type_line |-> S_Artifact, cmc |-> 3,
                            color_identity |-> <<>>])
    @@ (<<"g","e","m">> :> [name |-> <<"G","e","m">>, type_line |-> S_Artifact, cmc |-> 2])
    @@ (<<"e","e","l">> :> [name |-> <<"E","e","l">>, type_line |-> S_Creature, cmc |-> 9,
                            color_identity |-> <<"U", "B">>])

\* cards with and without metadata, a card without a name, a commander
StatLineChoices ==
    { <<"2"," ","E","l","f">>, <<"1"," ","B","o","g">>, <<"3"," ","O","r","b">>,
      <<"1"," ","G","e","m">>, <<"2"," ","E","e","l">>, <<"4"," ","H","e","x">>,
      <<"3"," ">>, <<"1"," ","E","l","f"," ","*","C","M","D","R","*">> }

InitStats ==
    /\ IdleOther
    /\ pc = "stats"
    /\ rawLines \in UNION {[1..n -> StatLineChoices] : n \in 1..MaxStatLines}
    /\ cardCounts = <<>>
    /\ parsedLines = parseLines(rawLines, cardCounts)
    /\ isGenericList = FALSE
    /\ settings = DEFAULT_SETTINGS
    /\ sections = <<>>
    /\ linesBySection = OM_Empty
    /\ preReorg = Organized(<<>>, OM_Empty)
    /\ cardDataByCardId \in {<<>>, StatsDb}
    /\ fetchFailed = {}
    /\ sectionTotalCounts = <<>>
    /\ missingCardCounts = <<>>
    /\ sectionMissingCardCounts = <<>>
    /\ statistics = <<>>
    /\ thrown = ""
    /\ IdleFetch

\* calculateDeckStatistics(lines, cardDataById)
CalculateStatistics ==
    /\ UNCHANGED otherVars
    /\ pc = "stats"
    /\ statistics' = calculateDeckStatistics(parsedLines, cardDataByCardId)
    /\ pc' = "counted"
    /\ UNCHANGED <<parseVars, fetchVars, isGenericList, settings, sections,
                   linesBySection, preReorg, cardDataByCardId, fetchFailed,
                   sectionTotalCounts, missingCardCounts, sectionMissingCardCounts,
                   thrown>>

NextStats == CalculateStatistics

SpecStats == InitStats /\ [][NextStats]_vars

\* the metadata of a line's card: <<>> when there is none
MetaOf(line) == CardDataOf(cardDataByCardId, nameToId(line.cardName))

HasMeta(line) == IsCard(line) /\ MetaOf(line) # <<>>

NotLandWithMeta(line) == HasMeta(line) /\ getCardTypeGroup(MetaOf(line)) # S_LandGroup

\* a card with metadata, a type group other than Land and no colors, of
\* capped cost k
ColorlessAt(line, k) ==
    /\ NotLandWithMeta(line)
    /\ Field(MetaOf(line)[1], "color_identity", <<>>) = <<>>
    /\ CmcKey(MetaOf(line)[1]) = k

\* C18: a card with metadata, a type group other than Land and an empty
\* color identity is counted under the channel "C" at its capped cost with
\* the line's count.
C18_ColorlessCardsUnderC ==
    pc = "counted" =>
        \A k \in 0..7 :
            At(statistics.colorDistribution["C"], k)
                = SumCardCounts(Filter(parsedLines, LAMBDA line : ColorlessAt(line, k)))

IsNamedCard(line) == IsCard(line) /\ line.cardName # <<>>

----------------------------------------------------------------------------
\* getCardColorGroup on its own: one card line, whose metadata has any
\* sequence of distinct colors as its color identity

COLORS == {"W", "U", "B", "R", "G"}

IsInjective(f) == \A i, j \in DOMAIN f : f[i] = f[j] => i = j

\* every subset of COLORS in every order of its elements
ColorIdentityChoices ==
    {c \in UNION {[1..n -> COLORS] : n \in 0..Cardinality(COLORS)} : IsInjective(c)}

S_BasicLand == <<"B","a","s","i","c"," ","L","a","n","d">>

TypeLineChoices == {S_Creature, S_LandGroup, S_BasicLand}

ColorDbChoices ==
    {<<>>} \cup
    { (nameToId(N_Elf) :> [name |-> N_Elf, type_line |-> t, cmc |-> 1, color_identity |-> c])
        : t \in TypeLineChoices, c \in ColorIdentityChoices }

InitColor ==
    /\ IdleOther
    /\ pc = "color"
    /\ rawLines = << <<"2"," ">> \o N_Elf >>
    /\ cardCounts = <<>>
    /\ parsedLines = parseLines(rawLines, cardCounts)
    /\ isGenericList = FALSE
    /\ settings = DEFAULT_SETTINGS
    /\ sections = <<>>
    /\ linesBySection = OM_Empty
    /\ preReorg = Organized(<<>>, OM_Empty)
    /\ cardDataByCardId \in ColorDbChoices
    /\ fetchFailed = {}
    /\ sectionTotalCounts = <<>>
    /\ missingCardCounts = <<>>
    /\ sectionMissingCardCounts = <<>>
    /\ statistics = <<>>
    /\ thrown = ""
    /\ IdleFetch

\* groupCardsByColor(sectionLines, cardDataByCardId): the groups, by name
GroupByColor ==
    /\ UNCHANGED otherVars
    /\ pc = "color"
    /\ linesBySection' = groupCardsByColor(parsedLines, cardDataByCardId)
    /\ pc' = "grouped"
    /\ UNCHANGED <<parseVars, fetchVars, isGenericList, settings, sections,
                   preReorg, cardDataByCardId, fetchFailed, sectionTotalCounts,
                   missingCardCounts, sectionMissingCardCounts, statistics, thrown>>

NextColor == GroupByColor

SpecColor == InitColor /\ [][NextColor]_vars

\* the colors a group name lists between its parentheses
ColorsInName(name) ==
    LET open == {i \in DOMAIN name : name[i] = "("}
        close == {i \in DOMAIN name : name[i] = ")"}
    IN  IF open = {} \/ close = {} THEN {}
        ELSE {name[i] : i \in {j \in DOMAIN name : /\ \A o \in open : o < j
                                                   /\ \A c \in close : j < c}} \ {"/"}

MonoColorName(color) ==
    CASE color = "W" -> <<"W","h","i","t","e">>
      [] color = "U" -> <<"B","l","u","e">>
      [] color = "B" -> <<"B","l","a","c","k">>
      [] color = "R" -> <<"R","e","d">>
      [] color = "G" -> <<"G","r","e","e","n">>

S_Azorius == <<"A","z","o","r","i","u","s"," ","(","W","/","U",")">>

\* what the card of the one line is grouped under
GroupOfTheCard == linesBySection.keys[1]

\* C20: every card is in exactly one color group: Lands when the type line
\* contains land, whatever the colors; else Colorless without colors or
\* without metadata, the color's name for one color, a name that lists
\* exactly the two or three colors for two or three (Azorius (W/U) for W
\* and U), Four-Color, Five-Color; in no order of the colors is the group
\* Multicolor.
C20_ColorGroupOfEverySubset ==
    pc = "grouped" =>
        LET meta == MetaOf(parsedLines[1])
            colors == IF meta = <<>> THEN {} ELSE Range(meta[1].color_identity)
            group == GroupOfTheCard
        IN  /\ Len(linesBySection.keys) = 1
            /\ linesBySection.val[1] = parsedLines
            /\ group # S_Multicolor
            /\ IF meta # <<>> /\ Includes(ToLowerCase(meta[1].type_line), S_land)
               THEN group = S_Lands
               ELSE CASE Cardinality(colors) = 0 -> group = S_Colorless
                      [] Cardinality(colors) = 1 -> \A c \in colors : group = MonoColorName(c)
                      [] Cardinality(colors) \in {2, 3} ->
                            /\ ColorsInName(group) = colors
                            /\ colors = {"W", "U"} => group = S_Azorius
                      [] Cardinality(colors) = 4 -> group = S_FourColor
                      [] Cardinality(colors) = 5 -> group = S_FiveColor

\* a creature whose color identity is W, U in that order is under Azorius
C20_Witness ==
    /\ pc = "grouped"
    /\ MetaOf(parsedLines[1]) # <<>>
    /\ MetaOf(parsedLines[1])[1].color_identity = <<"W", "U">>
    /\ MetaOf(parsedLines[1])[1].type_line = S_Creature
    /\ GroupOfTheCard = S_Azorius

----------------------------------------------------------------------------
\* sortCardsByManaCost on its own: the card lines of a small decklist, as
\* the type path and the cost path hand them over

MaxSortLines == 4

\* cards of several costs, cards of equal cost, names equal but for case,
\* cards without metadata (Hex, Ant), a commander
SortLineChoices ==
    { <<"1"," ","E","l","f">>, <<"1"," ","B","o","g">>, <<"1"," ","O","r","b">>,
      <<"1"," ","E","e","l">>, <<"1"," ","H","e","x">>, <<"1"," ","A","n","t">>,
      <<"1"," ","e","l","f">>, <<"1"," ","E","l","f"," ","*","C","M","D","R","*">> }

InitSort ==
    /\ IdleOther
    /\ pc = "sort"
    /\ rawLines \in UNION {[1..n -> SortLineChoices] : n \in 1..MaxSortLines}
    /\ cardCounts = <<>>
    /\ parsedLines = parseLines(rawLines, cardCounts)
    /\ isGenericList = FALSE
    /\ settings = DEFAULT_SETTINGS
    /\ sections = <<>>
    /\ linesBySection = OM_Empty
    /\ preReorg = Organized(<<>>, OM_Empty)
    /\ cardDataByCardId = StatsDb
    /\ fetchFailed = {}
    /\ sectionTotalCounts = <<>>
    /\ missingCardCounts = <<>>
    /\ sectionMissingCardCounts = <<>>
    /\ statistics = <<>>
    /\ thrown = ""
    /\ IdleFetch

\* cards.sort(...): the array is sorted in place
SortByManaCost ==
    /\ UNCHANGED otherVars
    /\ pc = "sort"
    /\ parsedLines' = sortCardsByManaCost(parsedLines, cardDataByCardId)
    /\ pc' = "sorted"
    /\ UNCHANGED <<rawLines, cardCounts, fetchVars, isGenericList, settings, sections,
                   linesBySection, preReorg, cardDataByCardId, fetchFailed,
                   sectionTotalCounts, missingCardCounts, sectionMissingCardCounts,
                   statistics, thrown>>

NextSort == SortByManaCost

SpecSort == InitSort /\ [][NextSort]_vars

\* the cost a line is ordered by: 0 without metadata
CostOf(line) == IF MetaOf(line) = <<>> THEN 0 ELSE MetaOf(line)[1].cmc

\* a is before b or equal to it in the alphabet, whatever the case
RECURSIVE AlphabeticallyNotAfter(_, _)
AlphabeticallyNotAfter(a, b) ==
    IF a = <<>> THEN TRUE
    ELSE IF b = <<>> THEN FALSE
    ELSE IF LowerChar(Head(a)) # LowerChar(Head(b))
    THEN PrimaryKey(Head(a)) < PrimaryKey(Head(b))
    ELSE AlphabeticallyNotAfter(Tail(a), Tail(b))

\* how many times x is in seq
Occurrences(seq, x) == Cardinality({i \in DOMAIN seq : seq[i] = x})

IsPermutation(s, t) ==
    /\ Len(s) = Len(t)
    /\ \A x \in Range(s) \cup Range(t) : Occurrences(s, x) = Occurrences(t, x)

\* C21: after sortCardsByManaCost a Card line before another has a cost
\* lower than or equal to the other's and, at equal cost, a name not
\* alphabetically after the other's; a card without metadata has cost 0;
\* the result is a permutation of the input.
C21_SortedByCostThenName ==
    pc = "sorted" =>
        /\ \A i, j \in DOMAIN parsedLines :
              (i < j /\ IsCard(parsedLines[i]) /\ IsCard(parsedLines[j])) =>
                  /\ CostOf(parsedLines[i]) <= CostOf(parsedLines[j])
                  /\ CostOf(parsedLines[i]) = CostOf(parsedLines[j]) =>
                        AlphabeticallyNotAfter(parsedLines[i].cardName,
                                               parsedLines[j].cardName)
        /\ IsPermutation(parsedLines, parseLines(rawLines, cardCounts))

\* Elf (cost 1), Hex (no metadata), Bog (cost 0) are sorted to Bog, Hex, Elf
C21_Witness ==
    /\ pc = "sorted"
    /\ rawLines = << <<"1"," ","E","l","f">>, <<"1"," ","H","e","x">>, <<"1"," ","B","o","g">> >>
    /\ [i \in DOMAIN parsedLines |-> parsedLines[i].cardName]
          = << <<"B","o","g">>, <<"H","e","x">>, <<"E","l","f">> >>

----------------------------------------------------------------------------

OnCostPath == ReorgPath(isGenericList, settings) = "cost"

\* the lines of a section after the cost sort, against its lines before
CostSorted(new, old) ==
    /\ IsPermutation(new, old)
    /\ new = Filter(new, IsCard) \o Filter(old, IsNotCard)
    /\ \A i, j \in DOMAIN new :
          (i < j /\ IsCard(new[i]) /\ IsCard(new[j])) =>
              /\ CostOf(new[i]) <= CostOf(new[j])
              /\ CostOf(new[i]) = CostOf(new[j]) =>
                    AlphabeticallyNotAfter(new[i].cardName, new[j].cardName)
    /\ Filter(old, IsCard) = <<>> => new = old

\* C22: on the cost-sort-only path the section names and their order are
\* unchanged and each section keeps its own lines: the Card lines first,
\* in cost order, then the other lines in their original order; a section
\* without Card lines is unchanged.
C22_CostSortKeepsSections ==
    (pc = "done" /\ OnCostPath) =>
        /\ sections = preReorg.sections
        /\ linesBySection.keys = preReorg.linesBySection.keys
        /\ \A k \in DOMAIN linesBySection.keys :
              CostSorted(linesBySection.val[k], preReorg.linesBySection.val[k])

\* a section whose cards were reordered by cost and whose other lines
\* were moved behind its cards
C22_Witness ==
    /\ pc = "done" /\ OnCostPath
    /\ \E k \in DOMAIN linesBySection.keys :
          LET new == linesBySection.val[k]
              old == preReorg.linesBySection.val[k]
          IN  /\ \E i, j \in DOMAIN old :
                    /\ i < j /\ IsCard(old[i]) /\ IsCard(old[j])
                    /\ CostOf(old[i]) > CostOf(old[j])
              /\ Filter(old, IsNotCard) # <<>>
              /\ new # old

----------------------------------------------------------------------------
\* renderDecklist on decklists whose headings may hold the name of a type
\* group

MaxTypeLines == 4

\* a heading that is the name of a type group, a plain heading, a
\* creature, a land, a comment, a commander
TypePathLineChoices ==
    { S_Creature, <<"A">>,
      <<"2"," ","E","l","f">>,
      <<"1"," ","B","o","g">>,
      <<"#"," ","c">>,
      <<"1"," ","O","x"," ","*","C","M","D","R","*">> }

InitType ==
    /\ IdleOther
    /\ pc = "start"
    /\ rawLines \in UNION {[1..n -> TypePathLineChoices] : n \in 1..MaxTypeLines}
    /\ cardCounts = <<>>
    /\ parsedLines = <<>>
    /\ isGenericList = FALSE
    /\ IdleRender
    /\ IdleFetch

NextType == RenderStart \/ FetchResolve \/ FetchReject

SpecType == InitType /\ [][NextType]_vars

OnTypePath == ReorgPath(isGenericList, settings) = "type"

\* the group part of a section name: the name itself, or what follows the
\* last " - " of a composed name
GroupPartOf(name) ==
    LET dashes == {i \in DOMAIN name : OccursAt(name, S_Dash, i)}
    IN  IF dashes = {} THEN name
        ELSE Tail_(name, (CHOOSE i \in dashes : \A j \in dashes : j <= i) + Len(S_Dash))

\* the place of a section in the fixed order: 0 for Commander, the index
\* of its group, and one more than the last index for any other name
TypeRank(name) ==
    IF name = S_Commander THEN 0
    ELSE IF \E g \in DOMAIN typeOrder : typeOrder[g] = GroupPartOf(name)
    THEN CHOOSE g \in DOMAIN typeOrder : typeOrder[g] = GroupPartOf(name)
    ELSE Len(typeOrder) + 1

\* C23: in a type-grouped decklist Commander is first when present, then
\* come the sections in the fixed order of the group of their name (a
\* composed name is placed by its group part), then the sections of no
\* group in discovery order.
C23_TypeSectionsInGroupOrder ==
    (pc = "done" /\ OnTypePath) =>
        \A i, j \in DOMAIN sections :
            i < j =>
                /\ TypeRank(sections[i]) <= TypeRank(sections[j])
                /\ (TypeRank(sections[i]) > Len(typeOrder)
                      /\ OM_Has(linesBySection, sections[i])
                      /\ OM_Has(linesBySection, sections[j]))
                   => OM_Index(linesBySection, sections[i])
                         <= OM_Index(linesBySection, sections[j])

----------------------------------------------------------------------------
\* the type grouping applied to the sections a type-grouped render produced

\* lines 1505-1601 once more, on the sections and buckets of the finished
\* render; preReorg keeps what the second pass started from
GroupAgain ==
    /\ UNCHANGED otherVars
    /\ pc = "done"
    /\ OnTypePath
    /\ LET again == TypeGrouping(sections, linesBySection, cardDataByCardId,
                                 DefaultSectionName(isGenericList),
                                 settings.sortByManaCost \/ settings.mobileMode)
       IN  IF again.ok
           THEN /\ preReorg' = Organized(sections, linesBySection)
                /\ sections' = again.sections
                /\ linesBySection' = again.linesBySection
                /\ thrown' = ""
                /\ pc' = "regrouped"
           ELSE /\ UNCHANGED <<preReorg, sections, linesBySection>>
                /\ thrown' = "TypeError"
                /\ pc' = "raised"
    /\ UNCHANGED <<parseVars, fetchVars, isGenericList, settings, cardDataByCardId,
                   fetchFailed, sectionTotalCounts, missingCardCounts,
                   sectionMissingCardCounts, statistics>>

MaxRegroupLines == 3

InitRegroup ==
    /\ IdleOther
    /\ pc = "start"
    /\ rawLines \in UNION {[1..n -> TypePathLineChoices] : n \in 1..MaxRegroupLines}
    /\ cardCounts = <<>>
    /\ parsedLines = <<>>
    /\ isGenericList = FALSE
    /\ IdleRender
    /\ IdleFetch

NextRegroup == RenderStart \/ FetchResolve \/ FetchReject \/ GroupAgain

SpecRegroup == InitRegroup /\ [][NextRegroup]_vars

\* the Card lines of the buckets that hold some, bucket by bucket
RECURSIVE CardGroupsFrom(_, _)
CardGroupsFrom(lbs, k) ==
    IF k > Len(lbs.val) THEN <<>>
    ELSE (IF Filter(lbs.val[k], IsCard) # <<>>
          THEN <<Filter(lbs.val[k], IsCard)>> ELSE <<>>)
         \o CardGroupsFrom(lbs, k + 1)

\* C24: type grouping is idempotent on the partition: grouping the
\* sections of a type-grouped decklist again, with the same settings and
\* metadata, leaves the same Card lines together in the same groups.
C24_TypeGroupingIdempotent ==
    pc = "regrouped" =>
        IsPermutation(CardGroupsFrom(linesBySection, 1),
                      CardGroupsFrom(preReorg.linesBySection, 1))

\* a second pass over two or more groups of cards, which renames them
C24_Witness ==
    /\ pc = "regrouped"
    /\ Len(CardGroupsFrom(linesBySection, 1)) >= 2
    /\ linesBySection.keys # preReorg.linesBySection.keys
    /\ cardDataByCardId # <<>>

----------------------------------------------------------------------------
(* main.ts: the plugin, its callbacks and its code-block processors        *)

NumBlocks == 2

MaxModifies == 1

\* what syncCounts resolves with: the collection as the vault holds it
\* when it is read
SyncResults == { [id \in {nameToId(N_Elf)} |-> 3], [id \in {nameToId(N_Elf)} |-> 1] }

\* the source of a code block: cards, or a heading without lines
BlockSources ==
    { << <<"2"," ","E","l","f">>, <<"1"," ","B","o","g">> >>,
      << <<"A">> >> }

\* a processor invocation that has not started
NewBlock(generic, source) ==
    [isGenericList |-> generic, source |-> source, pc |-> "idle",
     cardCounts |-> <<>>, parsedLines |-> <<>>, cardDataByCardId |-> <<>>,
     totals |-> <<>>,
     thrown |-> FALSE, errorNodes |-> 0]

InitPlugin ==
    /\ pc = "plugin"
    /\ rawLines = <<>>
    /\ cardCounts = <<>>
    /\ parsedLines = <<>>
    /\ isGenericList = FALSE
    /\ IdleRender
    /\ IdleFetch
    /\ IdleOverlay
    /\ thisCardCounts = <<>>
    /\ blocks \in [1..NumBlocks -> {NewBlock(g, s) : g \in BOOLEAN, s \in BlockSources}]
    /\ callbacks = [layout |-> "pending", modifying |-> 0, modified |-> 0]
    /\ guardSyncs = 0

\* renderDecklist after its await, as a function of the render's own
\* values: the totals, or Raised
RenderOutcome(parsed, generic, st, data) ==
    LET sectioned == Sectioner(parsed, generic)
        extracted == IF ~generic
                     THEN ExtractCommanders(sectioned.sections, sectioned.linesBySection)
                     ELSE Organized(sectioned.sections, sectioned.linesBySection)
        organized == IF extracted.ok
                     THEN Reorganize(generic, st, extracted.sections,
                                     extracted.linesBySection, data)
                     ELSE Raised
    IN  IF organized.ok
        THEN Aggregate(organized.sections, organized.linesBySection)
        ELSE Raised

\* renderDecklist up to its await: the lines are parsed with the counts
\* the processor passes
CallRender(block, counts) ==
    [block EXCEPT !.cardCounts = <<counts>>,
                  !.parsedLines = parseLines(block.source, counts),
                  !.pc = "fetching"]

\* the lines a render works on after its await, parsed again with the
\* plugin's counts of that moment
LinesAfterAwait_Reparsed(block, shared) == parseLines(block.source, shared[1])

\* the lines a render works on after its await: const parsedLines
LinesAfterAwait(block, shared) == block.parsedLines

\* a catch block that appends nothing
CatchError_Silent(block) == [block EXCEPT !.thrown = TRUE, !.pc = "returned"]

\* the catch block of a processor: the error node is appended
CatchError(block) ==
    [block EXCEPT !.thrown = TRUE, !.errorNodes = @ + 1, !.pc = "returned"]

\* a processor is invoked: with counts in memory it calls renderDecklist,
\* which runs up to its await; without, it calls syncCounts and waits
Invoke(b) ==
    /\ blocks[b].pc = "idle"
    /\ IF thisCardCounts = <<>>
       THEN /\ blocks' = [blocks EXCEPT ![b].pc = "syncing"]
            /\ guardSyncs' = guardSyncs + 1
       ELSE /\ blocks' = [blocks EXCEPT ![b] = CallRender(@, thisCardCounts[1])]
            /\ UNCHANGED guardSyncs
    /\ UNCHANGED <<thisCardCounts, callbacks, singleVars, overlayVars>>

\* the processor's syncCounts resolves: this.cardCounts is assigned and
\* renderDecklist is called with it
GuardSynced(b) ==
    /\ blocks[b].pc = "syncing"
    /\ \E counts \in SyncResults :
          /\ thisCardCounts' = <<counts>>
          /\ blocks' = [blocks EXCEPT ![b] = CallRender(@, counts)]
    /\ UNCHANGED <<callbacks, guardSyncs, singleVars, overlayVars>>

\* the fetch of a render settles (a rejection leaves the empty map) and
\* the render runs to its end; what it raises the processor catches
RenderResume(b) ==
    /\ blocks[b].pc = "fetching"
    /\ \E data \in ScryfallChoices :
          LET totals == RenderOutcome(LinesAfterAwait(blocks[b], thisCardCounts),
                                      blocks[b].isGenericList, settings, data)
          IN  blocks' = [blocks EXCEPT ![b] =
                            IF totals.ok
                            THEN [@ EXCEPT !.cardDataByCardId = data,
                                           !.totals = totals, !.pc = "returned"]
                            ELSE CatchError([@ EXCEPT !.cardDataByCardId = data])]
    /\ UNCHANGED <<thisCardCounts, callbacks, guardSyncs, singleVars, overlayVars>>

\* onLayoutReady: the callback calls syncCounts
LayoutReady ==
    /\ callbacks.layout = "pending"
    /\ callbacks' = [callbacks EXCEPT !.layout = "syncing"]
    /\ UNCHANGED <<thisCardCounts, blocks, guardSyncs, singleVars, overlayVars>>

LayoutSynced ==
    /\ callbacks.layout = "syncing"
    /\ \E counts \in SyncResults : thisCardCounts' = <<counts>>
    /\ callbacks' = [callbacks EXCEPT !.layout = "done"]
    /\ UNCHANGED <<blocks, guardSyncs, singleVars, overlayVars>>

\* vault.on("modify"): a collection file was modified, syncCounts is called
Modify ==
    /\ callbacks.modified < MaxModifies
    /\ callbacks' = [callbacks EXCEPT !.modified = @ + 1, !.modifying = @ + 1]
    /\ UNCHANGED <<thisCardCounts, blocks, guardSyncs, singleVars, overlayVars>>

ModifySynced ==
    /\ callbacks.modifying > 0
    /\ \E counts \in SyncResults : thisCardCounts' = <<counts>>
    /\ callbacks' = [callbacks EXCEPT !.modifying = @ - 1]
    /\ UNCHANGED <<blocks, guardSyncs, singleVars, overlayVars>>

NextPlugin ==
    \/ \E b \in 1..NumBlocks : Invoke(b) \/ GuardSynced(b) \/ RenderResume(b)
    \/ LayoutReady \/ LayoutSynced
    \/ Modify \/ ModifySynced

SpecPlugin == InitPlugin /\ [][NextPlugin]_vars

\* the totals of a render that runs alone, from its call to its end, with
\* the counts it was called with and the metadata it fetched
RunAlone(block) ==
    RenderOutcome(parseLines(block.source, block.cardCounts[1]), block.isGenericList,
                  settings, block.cardDataByCardId)

\* C25: the parsing and the collection lookups of a render are done before
\* its one suspension point: whatever resyncs and other renders run while
\* it waits for its fetch, its lines and globalCounts stay those of the
\* counts it was called with, and its missing counts and totals are those
\* of the render run alone.
C25_RendersAreIndependent ==
    \A b \in 1..NumBlocks :
        /\ blocks[b].pc \in {"fetching", "returned"} =>
              blocks[b].parsedLines = parseLines(blocks[b].source, blocks[b].cardCounts[1])
        /\ (blocks[b].pc = "returned" /\ ~blocks[b].thrown) =>
              blocks[b].totals = RunAlone(blocks[b])

\* two renders of the same cards were called with different counts and
\* both have returned, after a resync replaced the counts of the first:
\* their missing counts differ
C25_Witness ==
    /\ \A b \in 1..NumBlocks : blocks[b].pc = "returned" /\ ~blocks[b].thrown
    /\ blocks[1].source = blocks[2].source
    /\ blocks[1].cardCounts # blocks[2].cardCounts
    /\ thisCardCounts # blocks[1].cardCounts
    /\ blocks[1].totals.missingCardCounts # blocks[2].totals.missingCardCounts

\* C26: what renderDecklist raises is caught by the processor, of a
\* decklist and of a generic list alike: the processor returns and has
\* appended exactly one error node; when nothing is raised, none.
C26_OneErrorNodePerRaise ==
    \A b \in 1..NumBlocks :
        /\ blocks[b].errorNodes = IF blocks[b].thrown THEN 1 ELSE 0
        /\ blocks[b].thrown => blocks[b].pc = "returned"
        /\ blocks[b].thrown <=>
              /\ blocks[b].pc = "returned"
              /\ ~RunAlone(blocks[b]).ok

\* a decklist and a generic list whose renders raised: one node each
C26_Witness ==
    /\ ~blocks[1].isGenericList /\ blocks[2].isGenericList
    /\ \A b \in 1..NumBlocks :
          blocks[b].pc = "returned" /\ blocks[b].thrown /\ blocks[b].errorNodes = 1

\* C28: the sync of the processors' guard runs at most once, however the
\* processors and the layout-ready callback interleave.
C28_GuardSyncsAtMostOnce == guardSyncs <= 1

----------------------------------------------------------------------------

\* C27: the ordered section list given to the aggregation loop holds each
\* section name at most once, and exactly the names that have a bucket,
\* on every path.
C27_SectionListHasEachBucketOnce ==
    pc = "done" =>
        /\ IsInjective(sections)
        /\ Range(sections) = Range(linesBySection.keys)

----------------------------------------------------------------------------
(* mobile-utils.ts: the card image overlay                                 *)

\* the showMobileCardImage calls of a behavior
MaxShows == 2

\* the removal timers pending at one time
MaxTimers == 4

InitOverlay ==
    /\ pc = "overlay"
    /\ rawLines = <<>>
    /\ cardCounts = <<>>
    /\ parsedLines = <<>>
    /\ isGenericList = FALSE
    /\ IdleRender
    /\ IdleFetch
    /\ IdlePlugin
    /\ IdleOverlay

\* createMobileImageOverlay: a detached element whose image has no source
\* yet and whose keydown listener is on the document
NewOverlay == [load |-> "loading", show |-> FALSE, keydown |-> TRUE]

\* document.querySelector(".mobile-card-overlay"): the first attached one
ExistingOverlay == body[1]

\* hideMobileImageOverlay on the overlay elements os and the timers ts:
\* the first attached overlay loses its show class and its removal is
\* scheduled
HiddenOverlays(os) ==
    IF body # <<>> THEN [os EXCEPT ![ExistingOverlay].show = FALSE] ELSE os

RECURSIVE ScheduledRemovals(_, _)
ScheduledRemovals(ts, calls) ==
    IF calls = 0 \/ body = <<>> THEN ts
    ELSE ScheduledRemovals(Append(ts, ExistingOverlay), calls - 1)

\* showMobileCardImage(imageUrl)
ShowMobileCardImage ==
    /\ Len(overlays) < MaxShows
    /\ Len(timers) < MaxTimers
    /\ overlays' = Append(HiddenOverlays(overlays), NewOverlay)
    /\ timers' = ScheduledRemovals(timers, 1)
    /\ lastEvent' = "show"
    /\ UNCHANGED <<body, frames, singleVars, pluginVars>>

\* image.onload: the overlay is appended to the body
ImageLoad(o) ==
    /\ overlays[o].load = "loading"
    /\ overlays' = [overlays EXCEPT ![o].load = "loaded"]
    /\ body' = Append(body, o)
    /\ frames' = frames \cup {o}
    /\ UNCHANGED <<timers, lastEvent, singleVars, pluginVars>>

\* image.onerror
ImageError(o) ==
    /\ overlays[o].load = "loading"
    /\ overlays' = [overlays EXCEPT ![o].load = "error"]
    /\ UNCHANGED <<body, timers, frames, lastEvent, singleVars, pluginVars>>

\* the requestAnimationFrame callback
AnimationFrame(o) ==
    /\ o \in frames
    /\ overlays' = [overlays EXCEPT ![o].show = TRUE]
    /\ frames' = frames \ {o}
    /\ UNCHANGED <<body, timers, lastEvent, singleVars, pluginVars>>

\* the oldest setTimeout callback: existingOverlay.remove()
TimerFires ==
    /\ timers # <<>>
    /\ body' = SelectSeq(body, LAMBDA o : o # Head(timers))
    /\ timers' = Tail(timers)
    /\ UNCHANGED <<overlays, frames, lastEvent, singleVars, pluginVars>>

\* the overlay the user sees and acts on: the last one attached
ShownOverlay == body[Len(body)]

\* a click on the close button, or on the background, of the shown overlay
CloseClick ==
    /\ body # <<>>
    /\ Len(timers) < MaxTimers
    /\ overlays' = HiddenOverlays(overlays)
    /\ timers' = ScheduledRemovals(timers, 1)
    /\ lastEvent' = "close"
    /\ UNCHANGED <<body, frames, singleVars, pluginVars>>

\* Escape while an overlay is shown: every keydown listener still on the
\* document calls hideMobileImageOverlay and removes itself
Escape ==
    /\ body # <<>>
    /\ overlays[ShownOverlay].keydown
    /\ Len(timers) + Cardinality({o \in DOMAIN overlays : overlays[o].keydown}) <= MaxTimers
    /\ overlays' = [o \in DOMAIN overlays |->
                       [HiddenOverlays(overlays)[o] EXCEPT !.keydown = FALSE]]
    /\ timers' = ScheduledRemovals(timers,
                     Cardinality({o \in DOMAIN overlays : overlays[o].keydown}))
    /\ lastEvent' = "close"
    /\ UNCHANGED <<body, frames, singleVars, pluginVars>>

NextOverlay ==
    \/ ShowMobileCardImage
    \/ \E o \in DOMAIN overlays : ImageLoad(o) \/ ImageError(o) \/ AnimationFrame(o)
    \/ TimerFires
    \/ CloseClick
    \/ Escape

SpecOverlay == InitOverlay /\ [][NextOverlay]_vars

\* every image load settles, every timer and every animation frame fires
OverlayFairness ==
    /\ WF_vars(TimerFires)
    /\ \A o \in 1..MaxShows :
          /\ WF_vars(o \in DOMAIN overlays /\ (ImageLoad(o) \/ ImageError(o)))
          /\ WF_vars(o \in DOMAIN overlays /\ AnimationFrame(o))

SpecOverlayLive == SpecOverlay /\ OverlayFairness

\* C29: the document never holds two mobile overlays.
C29_AtMostOneOverlayAttached == Len(body) <= 1

\* C30: after a close action on the shown overlay, with no show after it,
\* the document eventually holds no overlay.
C30_ClosedOverlayGoesAway ==
    (lastEvent = "close" /\ Len(overlays) = MaxShows) ~> (body = <<>>)

====
